---- MODULE Spec2Model ----
(***************************************************************************)
(* LinkedAuto: the GitHub webhook ingestion and completion-detection       *)
(* pipeline (app/api/v1/webhooks.py) with the collaborators it calls       *)
(* (GitHubService, FreeSummarizationService, TokenEncryption), the tables  *)
(* it reads and writes (app/models/database.py), and the authenticated     *)
(* routes that write the same tables (app/api/v1/repos.py, posts.py).      *)
(*                                                                         *)
(* Text is modelled as a sequence of one-character strings wherever the    *)
(* code looks inside it (file paths, README content); JSON values and      *)
(* header values are tagged records, so that Python's truthiness, str()    *)
(* and attribute errors can be computed as the interpreter computes them.  *)
(***************************************************************************)
EXTENDS Naturals, Sequences, FiniteSets, TLC

VARIABLES users, repos, events, runs, nreq, vin, vout, posts, ops, nops, tasks

vars == <<users, repos, events, runs, nreq, vin, vout, posts, ops, nops, tasks>>

\* the state of the authenticated routes (repos.py, posts.py)
api == <<posts, ops, nops, tasks>>

(***************************************************************************)
(* Bounds of the model.                                                    *)
(***************************************************************************)
\* webhook deliveries received in one behaviour
MaxRequests == 2

\* commits in one push payload of the README-touch specification
MaxCommits == 2

\* calls made in one behaviour, the authenticated routes and the webhook
\* deliveries made next to them counted together
MaxOps == 3

(***************************************************************************)
(* Text helpers: str.lower() and the `in` substring test.                  *)
(***************************************************************************)
UpperChars == <<"A","B","C","D","E","F","G","H","I","J","K","L","M",
                "N","O","P","Q","R","S","T","U","V","W","X","Y","Z">>

LowerChars == <<"a","b","c","d","e","f","g","h","i","j","k","l","m",
                "n","o","p","q","r","s","t","u","v","w","x","y","z">>

\* str.lower() on one character
LowerChar(c) ==
    IF \E i \in 1..Len(UpperChars) : UpperChars[i] = c
    THEN LowerChars[CHOOSE i \in 1..Len(UpperChars) : UpperChars[i] = c]
    ELSE c

\* str.lower()
Lower(s) == [i \in 1..Len(s) |-> LowerChar(s[i])]

\* `sub in s` for two texts
Contains(sub, s) ==
    \E k \in 0..Len(s) :
        /\ k + Len(sub) <= Len(s)
        /\ \A i \in 1..Len(sub) : s[k + i] = sub[i]

\* the literal "readme" of webhooks.py line 89
README_NEEDLE == <<"r","e","a","d","m","e">>

\* the literal "Completed" of webhooks.py line 107
COMPLETED_MARKER == <<"C","o","m","p","l","e","t","e","d">>

(***************************************************************************)
(* JSON values as json.loads returns them.                                 *)
(*   scalar   [t: absent | null | str | num, s]   s is the text of a str   *)
(*            or the decimal literal of a num                              *)
(*   paths    [t: absent | list, items: Seq(text)]                         *)
(*   commit   [t: obj | num, modified, added, removed: paths]              *)
(*   commits  [t: absent | null | list, items: Seq(commit)]                *)
(*   repo     [t: absent | null | str | obj, full_name, id: scalar]        *)
(*   payload  [t: obj | list | null | num, repository: repo,               *)
(*             commits: commits]                                           *)
(***************************************************************************)
Absent == [t |-> "absent", s |-> ""]

Null == [t |-> "null", s |-> ""]

Str(s) == [t |-> "str", s |-> s]

Num(s) == [t |-> "num", s |-> s]

\* Python truthiness of a scalar (None, "" and 0 are falsy)
Truthy(v) ==
    CASE v.t = "absent" -> FALSE
      [] v.t = "null" -> FALSE
      [] v.t = "str" -> v.s # ""
      [] v.t = "num" -> v.s # "0"

\* Python str() of a scalar
PyStr(v) ==
    CASE v.t = "null" -> "None"
      [] v.t = "absent" -> "None"
      [] OTHER -> v.s

\* dict.get(key) : the value, or None when the key is missing
Get(v) == IF v.t = "absent" THEN Null ELSE v

\* dict.get(key, "") : the value, or "" when the key is missing
GetOrEmpty(v) == IF v.t = "absent" THEN Str("") ELSE v

NoPaths == [t |-> "absent", items |-> <<>>]

Paths(ps) == [t |-> "list", items |-> ps]

\* dict.get(key, []) for a list of paths
GetPaths(v) == IF v.t = "absent" THEN <<>> ELSE v.items

Commit(m, a, r) == [t |-> "obj", modified |-> m, added |-> a, removed |-> r]

NotACommit == [t |-> "num", modified |-> NoPaths, added |-> NoPaths, removed |-> NoPaths]

NoCommits == [t |-> "absent", items |-> <<>>]

NullCommits == [t |-> "null", items |-> <<>>]

Commits(cs) == [t |-> "list", items |-> cs]

NoRepo == [t |-> "absent", full_name |-> Absent, id |-> Absent]

NullRepo == [t |-> "null", full_name |-> Absent, id |-> Absent]

StrRepo == [t |-> "str", full_name |-> Absent, id |-> Absent]

Repo(fn, id) == [t |-> "obj", full_name |-> fn, id |-> id]

Obj(r, c) == [t |-> "obj", repository |-> r, commits |-> c]

NonObj(t) == [t |-> t, repository |-> NoRepo, commits |-> NoCommits]

(***************************************************************************)
(* Request bodies.  A body is raw bytes: not UTF-8 at all, text that is    *)
(* not JSON, or the text of a JSON value in some formatting ("dumps" is    *)
(* the formatting json.dumps itself produces).                             *)
(***************************************************************************)
NoBody == [kind |-> "none", fmt |-> "", payload |-> NonObj("null")]

NonUtf8Body == [kind |-> "nonutf8", fmt |-> "", payload |-> NonObj("null")]

NotJsonBody == [kind |-> "text", fmt |-> "", payload |-> NonObj("null")]

JsonBody(fmt, p) == [kind |-> "json", fmt |-> fmt, payload |-> p]

\* body.decode() followed by json.loads(): the exception raised, or "ok"
json_loads(body) ==
    CASE body.kind = "nonutf8" -> "UnicodeDecodeError"
      [] body.kind = "text" -> "JSONDecodeError"
      [] OTHER -> "ok"

\* json.dumps(payload): the payload's text in json.dumps' own formatting
json_dumps(p) == JsonBody("dumps", p)

(***************************************************************************)
(* Signatures.  HMAC-SHA256 is an injective function of (key, message);    *)
(* hexdigest() is its lower-case hex text.  A signature text is a prefix   *)
(* followed by hex text; ascii = FALSE marks a text that holds a           *)
(* character outside ASCII (header values are decoded as latin-1).         *)
(***************************************************************************)
\* settings.WEBHOOK_SECRET
WEBHOOK_SECRET == "your-webhook-secret"

OtherSecret == "not-the-secret"

Secrets == {WEBHOOK_SECRET, OtherSecret}

\* hmac.new(secret.encode(), request_body, hashlib.sha256).hexdigest()
hexdigest(secret, body) == [key |-> secret, msg |-> body, upper |-> FALSE]

NoHex == [key |-> "", msg |-> NoBody, upper |-> FALSE]

SigText(prefix, hex, ascii) == [prefix |-> prefix, hex |-> hex, ascii |-> ascii]

\* the empty string
EmptyText == SigText("", NoHex, TRUE)

NoHeader == [t |-> "absent", v |-> EmptyText]

Header(v) == [t |-> "str", v |-> v]

\* hmac.compare_digest on two str: TypeError unless both are ASCII
compare_digest(a, b) ==
    IF ~a.ascii \/ ~b.ascii THEN "TypeError"
    ELSE IF a = b THEN "True" ELSE "False"

verify_webhook_signature(request_body, signature, secret) ==
    compare_digest(SigText("sha256=", hexdigest(secret, request_body), TRUE), signature)

\* `if signature`: None and "" are falsy
HeaderTruthy(h) == h.t = "str" /\ h.v # EmptyText

(***************************************************************************)
(* The inputs the model draws from.                                        *)
(***************************************************************************)
P_README == <<"R","E","A","D","M","E",".","m","d">>

P_docs == <<"d","o","c","s","/","r","e","a","d","m","e",".","t","x","t">>

P_src == <<"s","r","c","/","a",".","g","o">>

P_Readme == <<"R","e","a","d","m","e",".","M","D">>

P_docsREADME == <<"d","o","c","s","/","R","E","A","D","M","E">>

P_read_me == <<"r","e","a","d","_","m","e",".","m","d">>

Modified(ps) == Commit(Paths(ps), NoPaths, NoPaths)

Added(ps) == Commit(NoPaths, Paths(ps), NoPaths)

Removed(ps) == Commit(NoPaths, NoPaths, Paths(ps))

\* the repository u/r with GitHub id 123 (number, as GitHub sends it)
GoodRepo == Repo(Str("u/r"), Num("123"))

CommitLists ==
    { NoCommits, NullCommits, Commits(<<>>),
      Commits(<<Modified(<<P_README>>)>>),
      Commits(<<Modified(<<P_src>>)>>),
      Commits(<<Modified(<<P_src>>), Added(<<P_docs>>)>>),
      Commits(<<Removed(<<P_README>>)>>),
      Commits(<<Modified(<<P_README>>), NotACommit>>),
      Commits(<<NotACommit>>) }

RepoValues ==
    { NoRepo, NullRepo, StrRepo,
      Repo(Absent, Num("123")), Repo(Null, Num("123")), Repo(Str(""), Num("123")),
      Repo(Str("u/r"), Absent), Repo(Str("u/r"), Null), Repo(Str("u/r"), Str("")),
      Repo(Str("u/r"), Str("123")), Repo(Str("u/r"), Num("999")),
      Repo(Str("v/w"), Num("456")) }

Payloads ==
    { NonObj("list"), NonObj("null") }
    \cup { Obj(GoodRepo, c) : c \in CommitLists }
    \cup { Obj(r, Commits(<<Modified(<<P_README>>)>>)) : r \in RepoValues }
    \cup { Obj(Repo(Str("v/w"), Num("456")), Commits(<<>>)) }

Bodies ==
    { NonUtf8Body, NotJsonBody }
    \cup { JsonBody("dumps", p) : p \in Payloads }
    \cup { JsonBody("pretty", Obj(GoodRepo, Commits(<<Modified(<<P_README>>)>>))) }

\* a body other than b, whose signature a sender may replay
OtherBody(b) == IF b = NotJsonBody THEN NonUtf8Body ELSE NotJsonBody

\* the X-Hub-Signature-256 values tried against body b
SignaturesFor(b) ==
    { NoHeader,
      Header(EmptyText),
      Header(SigText("sha256=", hexdigest(WEBHOOK_SECRET, b), TRUE)),
      Header(SigText("sha256=", hexdigest(WEBHOOK_SECRET, OtherBody(b)), TRUE)),
      Header(SigText("sha256=", hexdigest(OtherSecret, b), TRUE)),
      Header(SigText("sha256=", hexdigest(WEBHOOK_SECRET, b), FALSE)) }

\* the X-GitHub-Event values: absent, "push", another event
EventHeaders == { Absent, Str("push"), Str("ping") }

Requests ==
    UNION { { [sig |-> s, body |-> b, event |-> e] :
                s \in SignaturesFor(b), e \in EventHeaders } : b \in Bodies }

NoRequest == [sig |-> NoHeader, body |-> NoBody, event |-> Absent]

\* README texts the GitHub API may return
R_done == <<"P","r","o","j","e","c","t"," ","C","o","m","p","l","e","t","e","d">>

R_lower == <<"n","o","t"," ","c","o","m","p","l","e","t","e","d">>

R_wip == <<"W","I","P">>

ReadmeTexts == { <<>>, R_done, R_lower, R_wip }

(***************************************************************************)
(* The database (app/models/database.py).                                  *)
(*   users  : user id -> row; github_access_token is "" (none stored),     *)
(*            "enc" (a ciphertext of the current key) or "bad" (a text     *)
(*            the current key does not decrypt)                            *)
(*   repos  : repository id -> row                                         *)
(*   events : the webhook_events table, in insertion order                 *)
(***************************************************************************)
User(tok) == [github_access_token |-> tok, linkedin_access_token |-> ""]

\* a user who also went through auth.py's linkedin_callback
LinkedInUser(tok, ltok) == [github_access_token |-> tok, linkedin_access_token |-> ltok]

\* webhook_id "" is the NULL of the column
Repository(uid, gid, fn, mon) ==
    [user_id |-> uid, github_repo_id |-> gid, full_name |-> fn, is_monitored |-> mon,
     webhook_id |-> ""]

LinkedInPost_DefaultTone(uid, rid, content, tone) ==
    [user_id |-> uid, repository_id |-> rid, content |-> content, tone |-> "professional",
     status |-> "draft", linkedin_post_id |-> "", posted_at |-> ""]

\* posts.py lines 53-59: linkedin_post_id and posted_at are left NULL ("")
LinkedInPost(uid, rid, content, tone) ==
    [user_id |-> uid, repository_id |-> rid, content |-> content, tone |-> tone,
     status |-> "draft", linkedin_post_id |-> "", posted_at |-> ""]

WebhookEvent_WrongType(rid, et, p) ==
    [repository_id |-> rid, event_type |-> "webhook", payload |-> p, processed |-> FALSE]

\* lines 74-78: processed is left to its column default
WebhookEvent(rid, et, p) ==
    [repository_id |-> rid, event_type |-> et, payload |-> p, processed |-> FALSE]

db_add_KeepLast(table, row) == <<row>>

db_add_Upsert(table, row) ==
    IF \E i \in DOMAIN table : table[i].repository_id = row.repository_id
    THEN [i \in DOMAIN table |->
            IF table[i].repository_id = row.repository_id THEN row ELSE table[i]]
    ELSE Append(table, row)

\* db.add(row); db.commit(): the row is inserted after the rows of the table
db_add(table, row) == Append(table, row)

GithubTokens == { "", "enc", "bad" }

\* token_encryptor.decrypt_token: the plaintext, or InvalidToken
decrypt_token(encrypted_token) ==
    IF encrypted_token = "enc" THEN "plain" ELSE "InvalidToken"

(***************************************************************************)
(* The summarization service (free_summarization_service.py).  A post text *)
(* is the template it was made from, the repository name filled in and     *)
(* what customize_post appended.                                           *)
(***************************************************************************)
\* the tones that have templates (free_summarization_service.py lines 13-34)
Tones == { "professional", "playful", "technical", "cocky" }

\* templates per tone
NumTemplates == 3

get_tone_templates_NoCocky ==
    [t \in { "professional", "playful", "technical" } |-> "template"]

\* get_tone_templates (lines 125-132): a literal of its own, one sample
\* sentence per tone
get_tone_templates ==
    ( "professional" :> "Excited to share this completed project with the community!"
   @@ "playful" :> "Just wrapped up this fun project - check it out!"
   @@ "technical" :> "Completed implementation featuring advanced patterns and best practices."
   @@ "cocky" :> "Crushed this project - the code doesn't get any cleaner than this!" )

NoSummary == [tone |-> "", variant |-> 0, name |-> "", suffix |-> ""]

\* FreeSummarizationService.summarize_repository lines 57-66: the k-th
\* template of the tone, of "professional" when the tone has none, filled
\* with the repository's data
summarize(name, tone, k) ==
    [tone |-> IF tone \in Tones THEN tone ELSE "professional", variant |-> k,
     name |-> name, suffix |-> ""]

\* FreeSummarizationService.customize_post lines 140-151
customize(base_summary, tone, custom_instructions) ==
    CASE custom_instructions = "more technical"
           -> [base_summary EXCEPT !.suffix = @ \o "#TechnicalDetails #SoftwareEngineering"]
      [] custom_instructions = "add hashtags"
           -> [base_summary EXCEPT !.suffix = @ \o "#Programming #GitHub #OpenSource"]
      [] OTHER -> base_summary

(***************************************************************************)
(* Responses.                                                              *)
(***************************************************************************)
NoResponse == [status |-> 0, body |-> [status |-> "", key |-> "", val |-> ""]]

\* raise HTTPException(status_code, detail)
HTTPException(code, detail) ==
    [status |-> code, body |-> [status |-> "", key |-> "detail", val |-> detail]]

\* return {"status": st, key: val}
Return(st, key, val) ==
    [status |-> 200, body |-> [status |-> st, key |-> key, val |-> val]]

\* an exception no handler catches: the server answers 500
Unhandled(exc) ==
    [status |-> 500, body |-> [status |-> "", key |-> "exception", val |-> exc]]

soft_fail_Propagates(message) == Unhandled(message)

\* webhooks.py lines 115-118: the exception is caught and reported in a 200
soft_fail(message) == Return("error", "error", message)

(***************************************************************************)
(* The steps of github_webhook (webhooks.py lines 36-92) as operators on   *)
(* the request and the tables.                                             *)
(***************************************************************************)
\* lines 40-42: "pass", "401", or the TypeError compare_digest raises
signature_check(req) ==
    IF ~HeaderTruthy(req.sig) THEN "pass"
    ELSE LET v == verify_webhook_signature(req.body, req.sig.v, WEBHOOK_SECRET)
         IN  CASE v = "True" -> "pass"
               [] v = "False" -> "401"
               [] OTHER -> "TypeError"

is_push_AnyEvent(event) == TRUE

is_push_OrAbsent(event) == event = Str("push") \/ event.t = "absent"

\* line 53: only push events are processed
is_push(event) == event = Str("push")

\* line 57: payload.get("repository", {}) of a dict payload
repo_data(p) == IF p.repository.t = "absent" THEN Repo(Absent, Absent) ELSE p.repository

\* lines 57-59: .get on a payload or a repository that is not a dict
extract_raises(p) == p.t # "obj" \/ repo_data(p).t # "obj"

\* line 58
repo_full_name(p) == Get(repo_data(p).full_name)

\* line 59
repo_github_id(p) == PyStr(GetOrEmpty(repo_data(p).id))

\* line 61
missing_repo_info(p) == ~Truthy(repo_full_name(p)) \/ repo_github_id(p) = ""

monitored_rows_Unseen(gid) ==
    { i \in DOMAIN repos :
        /\ repos[i].github_repo_id = gid /\ repos[i].is_monitored
        /\ ~\E k \in DOMAIN events : events[k].repository_id = i }

monitored_rows_AnyRow(gid) ==
    { i \in DOMAIN repos : repos[i].github_repo_id = gid }

\* lines 65-68: the monitored rows with this GitHub id
monitored_rows(gid) ==
    { i \in DOMAIN repos : repos[i].github_repo_id = gid /\ repos[i].is_monitored }

\* .first()
first(rows) == CHOOSE i \in rows : \A j \in rows : i <= j

\* lines 84-87: the exception the loop over the commits raises, or "ok"
commits_raise(p) ==
    CASE p.commits.t = "null" -> "TypeError"
      [] \E i \in 1..Len(p.commits.items) : p.commits.items[i].t # "obj" -> "AttributeError"
      [] OTHER -> "ok"

RECURSIVE extend_all(_)
\* lines 83-87: modified_files after the loop
extend_all(cs) ==
    IF cs = <<>> THEN <<>>
    ELSE GetPaths(Head(cs).modified) \o GetPaths(Head(cs).added) \o extend_all(Tail(cs))

modified_files(p) == extend_all(p.commits.items)

readme_modified_CaseSensitive(files) ==
    \E i \in 1..Len(files) : Contains(README_NEEDLE, files[i])

\* line 89
readme_modified(files) ==
    \E i \in 1..Len(files) : Contains(README_NEEDLE, Lower(files[i]))

completed_keyword_IgnoreCase(readme_content) ==
    Contains(Lower(COMPLETED_MARKER), Lower(readme_content))

\* line 107
completed_keyword(readme_content) == Contains(COMPLETED_MARKER, readme_content)

(***************************************************************************)
(* One run of the handler.                                                 *)
(*   pc     idle | body (awaiting request.body()) | readme (awaiting       *)
(*          get_repo_readme) | metadata (awaiting get_repo_metadata in     *)
(*          process_completed_project) | done                              *)
(*   steps  the statements executed so far, in order                       *)
(*   repo   id of the matched repository row (0: none)                     *)
(*   row    index of the webhook_events row this run committed (0: none)   *)
(*   before number of webhook_events rows when the request arrived         *)
(*   calls  calls made to each collaborator                                *)
(*   fetch, meta, summ   what the collaborator did ("" : not called)       *)
(***************************************************************************)
Handlers == { "h1" }

NoCalls == [decrypt |-> 0, readme |-> 0, metadata |-> 0, summarize |-> 0]

IdleRun ==
    [pc |-> "idle", req |-> NoRequest, steps |-> <<>>, repo |-> 0, row |-> 0,
     before |-> 0,
     access_token |-> "", readme_content |-> <<>>, tone |-> "",
     fetch |-> "", meta |-> "", summ |-> "",
     calls |-> NoCalls, resp |-> NoResponse]

Finish(r, steps, resp) == [r EXCEPT !.pc = "done", !.steps = r.steps \o steps, !.resp = resp]

\* line 98: not user.github_access_token
no_github_token(owner) == owner.github_access_token = ""

\* lines 82-105, after the event row is committed
after_log(r, p) ==
    LET owner == users[repos[r.repo].user_id]
    IN
    IF commits_raise(p) # "ok"
    THEN Finish(r, <<"touch">>, Unhandled(commits_raise(p)))
    ELSE IF ~readme_modified(modified_files(p))
    THEN Finish(r, <<"touch">>, Return("processed", "readme_modified", "False"))
    ELSE IF no_github_token(owner)
    THEN Finish(r, <<"touch", "token">>, Return("error", "reason", "no github token"))
    ELSE IF decrypt_token(owner.github_access_token) = "InvalidToken"
    THEN Finish([r EXCEPT !.calls.decrypt = @ + 1], <<"touch", "token", "decrypt">>,
                soft_fail(""))
    ELSE [r EXCEPT !.pc = "readme",
                   !.steps = @ \o <<"touch", "token", "decrypt", "readme_fetch">>,
                   !.access_token = decrypt_token(owner.github_access_token),
                   !.calls.decrypt = @ + 1,
                   !.calls.readme = @ + 1]

\* lines 40-71: the response when the request ends before the event is logged,
\* NoResponse when it goes on
before_log(req) ==
    LET p == req.body.payload
    IN
    IF signature_check(req) = "TypeError" THEN Unhandled("TypeError")
    ELSE IF signature_check(req) = "401" THEN HTTPException(401, "Invalid signature")
    ELSE IF json_loads(req.body) = "UnicodeDecodeError" THEN Unhandled("UnicodeDecodeError")
    ELSE IF json_loads(req.body) = "JSONDecodeError"
    THEN HTTPException(400, "Invalid JSON payload")
    ELSE IF ~is_push(req.event) THEN Return("ignored", "event", PyStr(req.event))
    ELSE IF extract_raises(p) THEN Unhandled("AttributeError")
    ELSE IF missing_repo_info(p)
    THEN HTTPException(400, "Missing repository information")
    ELSE IF monitored_rows(repo_github_id(p)) = {}
    THEN Return("ignored", "reason", "repository not monitored")
    ELSE NoResponse

\* the statements executed by the time before_log answers
steps_before_log(req) ==
    LET p == req.body.payload
    IN
    IF signature_check(req) # "pass" THEN <<"signature">>
    ELSE IF json_loads(req.body) # "ok" THEN <<"signature", "parse">>
    ELSE IF ~is_push(req.event) THEN <<"signature", "parse", "event">>
    ELSE IF extract_raises(p) \/ missing_repo_info(p)
    THEN <<"signature", "parse", "event", "fields">>
    ELSE <<"signature", "parse", "event", "fields", "lookup">>

(***************************************************************************)
(* Actions.                                                                *)
(***************************************************************************)
\* a delivery out of the set requests arrives: POST /webhooks/github
Deliver(h, requests) ==
    /\ runs[h].pc = "idle"
    /\ nreq < MaxRequests
    /\ \E req \in requests :
         runs' = [runs EXCEPT ![h] = [IdleRun EXCEPT !.pc = "body", !.req = req,
                                                     !.before = Len(events)]]
    /\ nreq' = nreq + 1
    /\ UNCHANGED <<users, repos, events, vin, vout, api>>

Receive(h) == Deliver(h, Requests)

\* github_webhook from the body's arrival to its first await or its response
github_webhook(h) ==
    /\ runs[h].pc = "body"
    /\ LET r == runs[h]
           p == r.req.body.payload
       IN
       IF before_log(r.req) # NoResponse
       THEN /\ runs' = [runs EXCEPT ![h] =
                          Finish(r, steps_before_log(r.req), before_log(r.req))]
            /\ UNCHANGED events
       ELSE LET repo == first(monitored_rows(repo_github_id(p)))
                logged == [r EXCEPT !.steps = steps_before_log(r.req) \o <<"log">>,
                                    !.repo = repo,
                                    !.row = Len(events) + 1]
            IN  /\ events' = db_add(events,
                                    WebhookEvent(repo, PyStr(r.req.event), json_dumps(p)))
                /\ runs' = [runs EXCEPT ![h] = after_log(logged, p)]
    /\ UNCHANGED <<users, repos, nreq, vin, vout, api>>

ReadmeError == "404 Not Found"

get_repo_readme_Propagates(outcome, text) ==
    [raised |-> outcome = "raise", content |-> text]

\* GitHubService.get_repo_readme: the decoded content, "" on any exception;
\* it never raises
get_repo_readme(outcome, text) ==
    [raised |-> FALSE, content |-> IF outcome = "raise" THEN <<>> ELSE text]

\* lines 105-111: the README request returns or fails; the completion test
ReadmeReturn(h) ==
    /\ runs[h].pc = "readme"
    /\ \E outcome \in {"ok", "raise"}, text \in ReadmeTexts :
         LET r == runs[h]
             result == get_repo_readme(outcome, text)
             content == result.content
             got == [r EXCEPT !.fetch = outcome, !.readme_content = content]
         IN
         /\ outcome = "raise" => text = <<>>
         /\ runs' = [runs EXCEPT ![h] =
              IF result.raised
              THEN Finish([got EXCEPT !.readme_content = <<>>], <<>>, soft_fail(ReadmeError))
              ELSE IF ~completed_keyword(content)
              THEN Finish(got, <<"completed">>,
                          Return("processed", "completed_keyword", "False"))
              ELSE [got EXCEPT !.pc = "metadata",
                               !.steps = @ \o <<"completed", "orchestrator", "metadata">>,
                               !.calls.metadata = @ + 1]]
    /\ UNCHANGED <<users, repos, events, nreq, vin, vout, api>>

store_summary_AsDraft(table, row) == Append(table, row)

\* webhooks.py lines 130-135: the generated post is printed, not stored
store_summary(table, row) == table

\* GitHubService.get_repo_metadata wraps every failure in one exception
MetadataError == "Failed to get repo metadata: 404 Not Found"

SummarizeError == "'list' object has no attribute 'items'"

\* process_completed_project from the return of get_repo_metadata on
\* (summarize_repository never awaits), and lines 113-118 of github_webhook
process_completed_project(h) ==
    /\ runs[h].pc = "metadata"
    /\ \E m \in {"ok", "raise"}, s \in {"ok", "raise"} :
         LET r == runs[h]
         IN
         /\ m = "raise" => s = "ok"
         /\ runs' = [runs EXCEPT ![h] =
              IF m = "raise"
              THEN Finish([r EXCEPT !.meta = m], <<>>, soft_fail(MetadataError))
              ELSE LET called == [r EXCEPT !.meta = m, !.summ = s,
                                           !.tone = "professional",
                                           !.calls.summarize = @ + 1]
                   IN  IF s = "raise"
                       THEN Finish(called, <<"summarize">>, soft_fail(SummarizeError))
                       ELSE Finish(called, <<"summarize">>,
                                   Return("processed", "action", "summarization_triggered"))]
         /\ posts' = IF m = "ok" /\ s = "ok"
                     THEN store_summary(posts,
                            LinkedInPost(repos[r.repo].user_id, r.repo,
                                         summarize(repo_full_name(r.req.body.payload).s,
                                                   "professional", 1),
                                         "professional"))
                     ELSE posts
    /\ UNCHANGED <<users, repos, events, nreq, vin, vout, ops, nops, tasks>>

\* the response is sent and the handler's frame is gone
Respond(h) ==
    /\ runs[h].pc = "done"
    /\ runs' = [runs EXCEPT ![h] = IdleRun]
    /\ UNCHANGED <<users, repos, events, nreq, vin, vout, api>>

(***************************************************************************)
(* The authenticated routes (repos.py, posts.py).  A call runs in a slot   *)
(* from its arrival to its response; like the webhook handler it is cut    *)
(* at its awaits.                                                          *)
(*   kind    idle | monitor | stop | summarize | customize | publish |     *)
(*           tones                                                         *)
(*   pc      idle | details (awaiting get_repo_details) | hook (awaiting   *)
(*           create_webhook) | unhook (awaiting delete_webhook) |          *)
(*           metadata (awaiting get_repo_metadata) | done                  *)
(*   row     index of the Repository row the call holds (0: none)          *)
(*   held    that row as the call's session loaded it                      *)
(*   before  number of linkedin_posts rows when the call arrived           *)
(*   seen    number of repositories rows when a monitor call arrived       *)
(*   summary what summarize_repository returned                            *)
(*   tones   the mapping under "tones" in get_available_tones' response    *)
(* tasks is the list of background tasks post_to_linkedin has scheduled.   *)
(***************************************************************************)
Slots == { "o1" }

NoRow == Repository(0, "", "", FALSE)

IdleOp ==
    [kind |-> "idle", pc |-> "idle", user_id |-> 0, repo_id |-> "", post_id |-> 0,
     tone |-> "", row |-> 0, held |-> NoRow, before |-> 0, summary |-> NoSummary,
     outcome |-> "", resp |-> NoResponse, tones |-> << >>, seen |-> 0]

\* no call of the authenticated routes has been made
ApiIdle ==
    /\ posts = <<>>
    /\ ops = [o \in Slots |-> IdleOp]
    /\ nops = 0
    /\ tasks = <<>>

\* the user_id query parameters tried: the two users and an id without row
CallerIds == { 1, 2, 3 }

\* the repo_id path parameters tried
RepoIds == { "123", "456" }

\* full_name in GitHub's answer to /repositories/{repo_id}
GitHubFullName(repo_id) == IF repo_id = "123" THEN "u/r" ELSE "v/w"

\* the tone query parameters tried: one with templates, one without
RequestedTones == { "playful", "sarcastic" }

CustomInstructions == { "", "add hashtags" }

\* the response leaves the route
Answer(op, resp) == [op EXCEPT !.pc = "done", !.resp = resp]

\* return {"message": message, ...}
Message(message) == Return("", "message", message)

\* db.query(Repository).filter(user_id == uid, github_repo_id == rid)
user_repo_rows(uid, rid) ==
    { i \in DOMAIN repos : repos[i].user_id = uid /\ repos[i].github_repo_id = rid }

user_post_rows_AnyOwner(uid, pid) == { i \in DOMAIN posts : i = pid }

\* db.query(LinkedInPost).filter(id == pid, user_id == uid)
user_post_rows(uid, pid) ==
    { i \in DOMAIN posts : i = pid /\ posts[i].user_id = uid }

\* a call may start in slot o
CanStart(o) == ops[o].pc = "idle" /\ nops + nreq < MaxOps

\* repos.py lines 54-65: monitor_repository up to await get_repo_details
monitor_repository(o) ==
    /\ CanStart(o)
    /\ \E uid \in CallerIds, rid \in RepoIds :
         LET op == [IdleOp EXCEPT !.kind = "monitor", !.user_id = uid, !.repo_id = rid,
                                  !.before = Len(posts), !.seen = Len(repos)]
         IN  ops' = [ops EXCEPT ![o] =
               IF uid \notin DOMAIN users
               THEN Answer(op, HTTPException(404, "User not found"))
               ELSE IF users[uid].github_access_token = ""
               THEN Answer(op, HTTPException(400, "GitHub not connected"))
               ELSE IF decrypt_token(users[uid].github_access_token) = "InvalidToken"
               THEN Answer(op, HTTPException(400, "Failed to monitor repository: "))
               ELSE [op EXCEPT !.pc = "details"]]
    /\ nops' = nops + 1
    /\ UNCHANGED <<users, repos, events, runs, nreq, vin, vout, posts, tasks>>

unique_violation_PerUser(table, uid, gid) ==
    \E i \in DOMAIN table : table[i].github_repo_id = gid /\ table[i].user_id = uid

\* database.py line 42: github_repo_id is unique, the INSERT of a second row
\* with the id raises IntegrityError, whoever owns the first
unique_violation(table, uid, gid) ==
    \E i \in DOMAIN table : table[i].github_repo_id = gid

reenable_WithHook(table, i) ==
    [table EXCEPT ![i].is_monitored = TRUE, ![i].webhook_id = "w1"]

\* repos.py lines 72-74: the existing row is switched on, nothing else
reenable(table, i) == [table EXCEPT ![i].is_monitored = TRUE]

\* repos.py lines 65-94: get_repo_details returns or raises; the row is
\* re-enabled, or inserted (github_repo_id is unique) before create_webhook
monitor_details(o) ==
    /\ ops[o].kind = "monitor" /\ ops[o].pc = "details"
    /\ \E outcome \in {"ok", "raise"} :
         LET op == [ops[o] EXCEPT !.outcome = outcome]
             existing == user_repo_rows(op.user_id, op.repo_id)
         IN
         IF outcome = "raise"
         THEN /\ ops' = [ops EXCEPT ![o] =
                   Answer(op, HTTPException(400, "Failed to monitor repository: 404 Not Found"))]
              /\ UNCHANGED repos
         ELSE IF existing # {}
         THEN /\ repos' = reenable(repos, first(existing))
              /\ ops' = [ops EXCEPT ![o] =
                   Answer([op EXCEPT !.row = first(existing)],
                          Message("Repository monitoring enabled"))]
         ELSE IF unique_violation(repos, op.user_id, op.repo_id)
         THEN /\ ops' = [ops EXCEPT ![o] =
                   Answer(op, HTTPException(400, "Failed to monitor repository: IntegrityError"))]
              /\ UNCHANGED repos
         ELSE /\ repos' = db_add(repos, Repository(op.user_id, op.repo_id,
                                                   GitHubFullName(op.repo_id), TRUE))
              /\ ops' = [ops EXCEPT ![o] = [op EXCEPT !.pc = "hook", !.row = Len(repos) + 1]]
    /\ UNCHANGED <<users, events, runs, nreq, vin, vout, posts, nops, tasks>>

\* the ids create_webhook may return; "" is its None
WebhookIds == { "", "w1" }

\* repos.py lines 94-99: create_webhook returns an id or None
monitor_hook(o) ==
    /\ ops[o].kind = "monitor" /\ ops[o].pc = "hook"
    /\ \E webhook_id \in WebhookIds :
         /\ repos' = IF webhook_id # ""
                     THEN [repos EXCEPT ![ops[o].row].webhook_id = webhook_id]
                     ELSE repos
         /\ ops' = [ops EXCEPT ![o] = Answer(ops[o], Message("Repository monitoring enabled"))]
    /\ UNCHANGED <<users, events, runs, nreq, vin, vout, posts, nops, tasks>>

stop_write_HookOnly(table, i, loaded) == [table EXCEPT ![i].webhook_id = ""]

\* repos.py lines 132-134: the UPDATE names the columns whose new value
\* differs from the value the session loaded
stop_write(table, i, loaded) ==
    [table EXCEPT ![i].is_monitored = IF loaded.is_monitored THEN FALSE ELSE @,
                  ![i].webhook_id = IF loaded.webhook_id # "" THEN "" ELSE @]

\* repos.py lines 112-136: stop_monitoring_repository up to await
\* delete_webhook, or to its response when there is no hook to delete
stop_monitoring_repository(o) ==
    /\ CanStart(o)
    /\ \E uid \in CallerIds, rid \in RepoIds :
         LET op == [IdleOp EXCEPT !.kind = "stop", !.user_id = uid, !.repo_id = rid,
                                  !.before = Len(posts)]
             rows == user_repo_rows(uid, rid)
         IN
         IF uid \notin DOMAIN users
         THEN /\ ops' = [ops EXCEPT ![o] = Answer(op, HTTPException(404, "User not found"))]
              /\ UNCHANGED repos
         ELSE IF rows = {}
         THEN /\ ops' = [ops EXCEPT ![o] = Answer(op, HTTPException(404, "Repository not found"))]
              /\ UNCHANGED repos
         ELSE LET i == first(rows)
                  found == [op EXCEPT !.row = i, !.held = repos[i]]
              IN  IF /\ repos[i].webhook_id # ""
                     /\ users[uid].github_access_token # ""
                     /\ decrypt_token(users[uid].github_access_token) # "InvalidToken"
                  THEN /\ ops' = [ops EXCEPT ![o] = [found EXCEPT !.pc = "unhook"]]
                       /\ UNCHANGED repos
                  ELSE /\ repos' = stop_write(repos, i, repos[i])
                       /\ ops' = [ops EXCEPT ![o] =
                            Answer(found, Message("Repository monitoring disabled"))]
    /\ nops' = nops + 1
    /\ UNCHANGED <<users, events, runs, nreq, vin, vout, posts, tasks>>

\* repos.py lines 128-136: delete_webhook returns or raises, either way the
\* row is switched off
stop_unhook(o) ==
    /\ ops[o].kind = "stop" /\ ops[o].pc = "unhook"
    /\ \E outcome \in {"ok", "raise"} :
         /\ repos' = stop_write(repos, ops[o].row, ops[o].held)
         /\ ops' = [ops EXCEPT ![o] =
              Answer([ops[o] EXCEPT !.outcome = outcome],
                     Message("Repository monitoring disabled"))]
    /\ UNCHANGED <<users, events, runs, nreq, vin, vout, posts, nops, tasks>>

\* posts.py lines 31-47: summarize_repository up to await get_repo_metadata
summarize_repository(o) ==
    /\ CanStart(o)
    /\ \E uid \in CallerIds, rid \in RepoIds, tone \in RequestedTones :
         LET op == [IdleOp EXCEPT !.kind = "summarize", !.user_id = uid, !.repo_id = rid,
                                  !.tone = tone, !.before = Len(posts)]
             rows == user_repo_rows(uid, rid)
         IN  ops' = [ops EXCEPT ![o] =
               IF rows = {}
               THEN Answer(op, HTTPException(404, "Repository not found"))
               ELSE IF users[uid].github_access_token = ""
               THEN Answer(op, HTTPException(400, "GitHub not connected"))
               ELSE IF decrypt_token(users[uid].github_access_token) = "InvalidToken"
               THEN Answer(op, HTTPException(400, "Failed to summarize repository: "))
               ELSE [op EXCEPT !.pc = "metadata", !.row = first(rows),
                               !.held = repos[first(rows)]]]
    /\ nops' = nops + 1
    /\ UNCHANGED <<users, repos, events, runs, nreq, vin, vout, posts, tasks>>

\* posts.py lines 47-77: get_repo_metadata returns or raises, the summary
\* is generated (or raises) and the draft is inserted
summarize_return(o) ==
    /\ ops[o].kind = "summarize" /\ ops[o].pc = "metadata"
    /\ \E m \in {"ok", "raise"}, s \in {"ok", "raise"}, k \in 1..NumTemplates :
         LET op == [ops[o] EXCEPT !.outcome = IF m = "raise" THEN "metadata" ELSE
                                              IF s = "raise" THEN "summarize" ELSE "ok"]
             summary == summarize(op.held.full_name, op.tone, k)
         IN
         /\ (m = "raise" \/ s = "raise") => k = 1
         /\ m = "raise" => s = "ok"
         /\ IF m = "raise"
            THEN /\ ops' = [ops EXCEPT ![o] = Answer(op,
                       HTTPException(400, "Failed to summarize repository: " \o MetadataError))]
                 /\ UNCHANGED posts
            ELSE IF s = "raise"
            THEN /\ ops' = [ops EXCEPT ![o] = Answer(op,
                       HTTPException(400, "Failed to summarize repository: " \o SummarizeError))]
                 /\ UNCHANGED posts
            ELSE /\ posts' = db_add(posts, LinkedInPost(op.user_id, op.row, summary, op.tone))
                 /\ ops' = [ops EXCEPT ![o] =
                      Answer([op EXCEPT !.summary = summary, !.post_id = Len(posts) + 1],
                             Return("draft", "tone", op.tone))]
    /\ UNCHANGED <<users, repos, events, runs, nreq, vin, vout, nops, tasks>>

\* the post_id path parameters tried
PostIds == { 1, 2 }

\* posts.py lines 91-118: customize_post (customize_post of the service
\* never awaits)
customize_post(o) ==
    /\ CanStart(o)
    /\ \E uid \in CallerIds, pid \in PostIds, tone \in RequestedTones,
          custom_instructions \in CustomInstructions :
         LET op == [IdleOp EXCEPT !.kind = "customize", !.user_id = uid, !.post_id = pid,
                                  !.tone = tone, !.before = Len(posts)]
         IN
         IF user_post_rows(uid, pid) = {}
         THEN /\ ops' = [ops EXCEPT ![o] = Answer(op, HTTPException(404, "Post not found"))]
              /\ UNCHANGED posts
         ELSE /\ posts' = [posts EXCEPT
                             ![pid].content = customize(@, tone, custom_instructions),
                             ![pid].tone = tone]
              /\ ops' = [ops EXCEPT ![o] = Answer(op, Return(posts[pid].status, "tone", tone))]
    /\ nops' = nops + 1
    /\ UNCHANGED <<users, repos, events, runs, nreq, vin, vout, tasks>>

\* one scheduled post_to_linkedin_background
\*   pc       queued | posting (awaiting post_content) | done
\*   held     the post's status as the task's query loaded it
\*   outcome  "" | InvalidToken (decrypt_token raised) | ok | raise (what
\*            post_content did)
Task(pid, encrypted_token) ==
    [post_id |-> pid, encrypted_token |-> encrypted_token, pc |-> "queued", held |-> "",
     outcome |-> ""]

add_task_OncePerPost(queue, task) ==
    IF \E i \in DOMAIN queue : queue[i].post_id = task.post_id /\ queue[i].pc # "done"
    THEN queue
    ELSE Append(queue, task)

\* background_tasks.add_task (posts.py lines 149-154)
add_task(queue, task) == Append(queue, task)

\* posts.py lines 131-160: post_to_linkedin
post_to_linkedin(o) ==
    /\ CanStart(o)
    /\ \E uid \in CallerIds, pid \in PostIds :
         LET op == [IdleOp EXCEPT !.kind = "publish", !.user_id = uid, !.post_id = pid,
                                  !.before = Len(posts)]
         IN
         IF user_post_rows(uid, pid) = {}
         THEN /\ ops' = [ops EXCEPT ![o] = Answer(op, HTTPException(404, "Post not found"))]
              /\ UNCHANGED <<posts, tasks>>
         ELSE IF users[uid].linkedin_access_token = ""
         THEN /\ ops' = [ops EXCEPT ![o] =
                   Answer(op, HTTPException(400, "LinkedIn not connected"))]
              /\ UNCHANGED <<posts, tasks>>
         ELSE /\ posts' = [posts EXCEPT ![pid].status = "posting"]
              /\ tasks' = add_task(tasks, Task(pid, users[uid].linkedin_access_token))
              /\ ops' = [ops EXCEPT ![o] = Answer(op, Return("posting", "message",
                                                  "Post is being published to LinkedIn"))]
    /\ nops' = nops + 1
    /\ UNCHANGED <<users, repos, events, runs, nreq, vin, vout>>

\* posts.py lines 165-175 and 184-187: post_to_linkedin_background up to
\* await post_content, or to the failed status when the token does not
\* decrypt
post_to_linkedin_background(i) ==
    /\ i \in DOMAIN tasks
    /\ tasks[i].pc = "queued"
    /\ LET t == tasks[i]
       IN  IF decrypt_token(t.encrypted_token) = "InvalidToken"
           THEN /\ posts' = [posts EXCEPT ![t.post_id].status = "failed"]
                /\ tasks' = [tasks EXCEPT ![i].pc = "done", ![i].outcome = "InvalidToken",
                                           ![i].held = posts[t.post_id].status]
           ELSE /\ tasks' = [tasks EXCEPT ![i].pc = "posting",
                                           ![i].held = posts[t.post_id].status]
                /\ UNCHANGED posts
    /\ UNCHANGED <<users, repos, events, runs, nreq, vin, vout, ops, nops>>

\* posts.py lines 175-187: post_content returns the URL or raises; the
\* UPDATE names the columns whose new value differs from the value the
\* task's query loaded
background_return(i) ==
    /\ i \in DOMAIN tasks
    /\ tasks[i].pc = "posting"
    /\ \E outcome \in {"ok", "raise"} :
         LET t == tasks[i]
         IN  /\ posts' = IF outcome = "ok"
                         THEN [posts EXCEPT ![t.post_id].status =
                                               IF t.held = "posted" THEN @ ELSE "posted",
                                            ![t.post_id].linkedin_post_id = "url",
                                            ![t.post_id].posted_at = "utcnow"]
                         ELSE [posts EXCEPT ![t.post_id].status =
                                               IF t.held = "failed" THEN @ ELSE "failed"]
             /\ tasks' = [tasks EXCEPT ![i].pc = "done", ![i].outcome = outcome]
    /\ UNCHANGED <<users, repos, events, runs, nreq, vin, vout, ops, nops>>

\* posts.py lines 220-225: get_available_tones reads no table
get_available_tones(o) ==
    /\ CanStart(o)
    /\ ops' = [ops EXCEPT ![o] =
         Answer([IdleOp EXCEPT !.kind = "tones", !.before = Len(posts),
                               !.tones = get_tone_templates],
                Return("", "tones", ""))]
    /\ nops' = nops + 1
    /\ UNCHANGED <<users, repos, events, runs, nreq, vin, vout, posts, tasks>>

\* the response of an authenticated route is sent
OpRespond(o) ==
    /\ ops[o].pc = "done"
    /\ ops' = [ops EXCEPT ![o] = IdleOp]
    /\ UNCHANGED <<users, repos, events, runs, nreq, vin, vout, posts, nops, tasks>>

(***************************************************************************)
(* The webhook pipeline.  The tables start in a state the other routes     *)
(* produce: two users who logged in through GitHub, each with one          *)
(* repository row; the first user's stored token and the first row's       *)
(* monitoring flag vary.                                                   *)
(***************************************************************************)
NoVerify == [body |-> NoBody, signature |-> EmptyText, secret |-> ""]

Init ==
    /\ \E tok \in GithubTokens : users = <<User(tok), User("enc")>>
    /\ \E mon \in BOOLEAN :
         repos = <<Repository(1, "123", "u/r", mon), Repository(2, "456", "v/w", TRUE)>>
    /\ events = <<>>
    /\ runs = [h \in Handlers |-> IdleRun]
    /\ nreq = 0
    /\ vin = NoVerify
    /\ vout = ""
    /\ ApiIdle

Next ==
    \E h \in Handlers :
        \/ Receive(h)
        \/ github_webhook(h)
        \/ ReadmeReturn(h)
        \/ process_completed_project(h)
        \/ Respond(h)

Spec == Init /\ [][Next]_vars

(***************************************************************************)
(* The whole application: the webhook handler next to the authenticated    *)
(* routes and the background tasks, over tables that earlier calls left:   *)
(* user 1 owns one repository row, monitored with its hook or switched     *)
(* off; the stored tokens of user 1 vary; user 2 owns nothing yet.         *)
(***************************************************************************)
PushOf(repo, commits) ==
    [sig |-> NoHeader, body |-> JsonBody("dumps", Obj(repo, commits)), event |-> Str("push")]

AppRequests ==
    { PushOf(GoodRepo, Commits(<<Modified(<<P_README>>)>>)),
      PushOf(Repo(Str("v/w"), Num("456")), Commits(<<>>)),
      [PushOf(GoodRepo, Commits(<<>>)) EXCEPT !.event = Str("ping")] }

ReceiveApp(h) == nops + nreq < MaxOps /\ Deliver(h, AppRequests)

InitApp ==
    /\ \E tok \in GithubTokens, ltok \in GithubTokens :
         /\ tok = "enc" \/ ltok = "enc"
         /\ users = <<LinkedInUser(tok, ltok), User("enc")>>
    /\ \E row \in { Repository(1, "123", "u/r", FALSE),
                     [Repository(1, "123", "u/r", TRUE) EXCEPT !.webhook_id = "w0"] } :
         repos = <<row>>
    /\ events = <<>>
    /\ runs = [h \in Handlers |-> IdleRun]
    /\ nreq = 0
    /\ vin = NoVerify
    /\ vout = ""
    /\ ApiIdle

NextApp ==
    \/ \E h \in Handlers :
          \/ ReceiveApp(h)
          \/ github_webhook(h)
          \/ ReadmeReturn(h)
          \/ process_completed_project(h)
          \/ Respond(h)
    \/ \E o \in Slots :
          \/ monitor_repository(o)
          \/ monitor_details(o)
          \/ monitor_hook(o)
          \/ stop_monitoring_repository(o)
          \/ stop_unhook(o)
          \/ summarize_repository(o)
          \/ summarize_return(o)
          \/ customize_post(o)
          \/ post_to_linkedin(o)
          \/ OpRespond(o)
    \/ \E i \in 1..MaxOps :
          \/ post_to_linkedin_background(i)
          \/ background_return(i)

SpecApp == InitApp /\ [][NextApp]_vars

(***************************************************************************)
(* Concurrent deliveries: two handler tasks on the one event loop, each    *)
(* taking one delivery; a task runs from one await to the next without     *)
(* interruption, and the tasks interleave at the awaits.                   *)
(***************************************************************************)
ConcHandlers == { "h1", "h2" }

SignedPush(fmt, p) ==
    [sig |-> Header(SigText("sha256=", hexdigest(WEBHOOK_SECRET, JsonBody(fmt, p)), TRUE)),
     body |-> JsonBody(fmt, p), event |-> Str("push")]

ConcRequests ==
    { PushOf(GoodRepo, Commits(<<Modified(<<P_README>>)>>)),
      SignedPush("pretty", Obj(GoodRepo, Commits(<<Modified(<<P_README>>)>>))),
      PushOf(GoodRepo, Commits(<<Modified(<<P_src>>)>>)),
      PushOf(Repo(Str("v/w"), Num("456")), Commits(<<>>)),
      PushOf(Repo(Str("v/w"), Num("456")), Commits(<<Added(<<P_docs>>)>>)),
      PushOf(Repo(Str("u/r"), Num("999")), Commits(<<>>)),
      PushOf(Repo(Str("u/r"), Str("")), Commits(<<>>)),
      [PushOf(GoodRepo, Commits(<<>>)) EXCEPT !.event = Str("ping")],
      [sig |-> NoHeader, body |-> NotJsonBody, event |-> Str("push")] }

ReceiveConc(h) == Deliver(h, ConcRequests)

InitConc ==
    /\ \E tok \in GithubTokens : users = <<User(tok), User("enc")>>
    /\ \E mon \in BOOLEAN :
         repos = <<Repository(1, "123", "u/r", mon), Repository(2, "456", "v/w", TRUE)>>
    /\ events = <<>>
    /\ runs = [h \in ConcHandlers |-> IdleRun]
    /\ nreq = 0
    /\ vin = NoVerify
    /\ vout = ""
    /\ ApiIdle

NextConc ==
    \E h \in ConcHandlers :
        \/ ReceiveConc(h)
        \/ github_webhook(h)
        \/ ReadmeReturn(h)
        \/ process_completed_project(h)

SpecConc == InitConc /\ [][NextConc]_vars

(***************************************************************************)
(* The webhook pipeline under the scheduling the event loop gives: a       *)
(* handler whose body has arrived runs, and a collaborator call a handler  *)
(* awaits returns or raises.                                               *)
(***************************************************************************)
SpecLive ==
    /\ Init
    /\ [][Next]_vars
    /\ \A h \in Handlers :
         /\ WF_vars(github_webhook(h))
         /\ WF_vars(ReadmeReturn(h))
         /\ WF_vars(process_completed_project(h))

(***************************************************************************)
(* verify_webhook_signature on its own: every body, signature text and     *)
(* secret of the bounded sets.                                             *)
(***************************************************************************)
VerifyBodies == { NotJsonBody, NonUtf8Body, JsonBody("dumps", NonObj("null")) }

VerifySignatures ==
    { EmptyText }
    \cup { SigText(pre, [key |-> k, msg |-> b, upper |-> u], a) :
             pre \in {"sha256=", "sha1=", ""}, k \in Secrets, b \in VerifyBodies,
             u \in BOOLEAN, a \in BOOLEAN }

InitVerify ==
    /\ users = <<>>
    /\ repos = <<>>
    /\ events = <<>>
    /\ runs = [h \in Handlers |-> IdleRun]
    /\ nreq = 0
    /\ \E b \in VerifyBodies, sg \in VerifySignatures, k \in Secrets :
         vin = [body |-> b, signature |-> sg, secret |-> k]
    /\ vout = ""
    /\ ApiIdle

Verify ==
    /\ vout = ""
    /\ vout' = verify_webhook_signature(vin.body, vin.signature, vin.secret)
    /\ UNCHANGED <<users, repos, events, runs, nreq, vin, api>>

NextVerify == Verify

SpecVerify == InitVerify /\ [][NextVerify]_vars

(***************************************************************************)
(* README-touch detection on its own (webhooks.py lines 82-89): every      *)
(* payload whose commits are objects carrying lists of path strings, up to *)
(* MaxCommits commits.                                                     *)
(***************************************************************************)
TouchPaths == { P_README, P_Readme, P_docsREADME, P_docs, P_src, P_read_me }

TouchCommits ==
    { Commit(NoPaths, NoPaths, NoPaths),
      Commit(Paths(<<>>), Paths(<<>>), Paths(<<>>)),
      Commit(Paths(<<P_src, P_read_me>>), Paths(<<P_Readme>>), Paths(<<P_README>>)) }
    \cup { Modified(<<f>>) : f \in TouchPaths }
    \cup { Added(<<f>>) : f \in TouchPaths }
    \cup { Removed(<<f>>) : f \in TouchPaths }

RECURSIVE SeqsUpTo(_, _)
\* the sequences over S of length at most n
SeqsUpTo(S, n) ==
    IF n = 0 THEN { <<>> }
    ELSE SeqsUpTo(S, n - 1)
         \cup { Append(q, x) : q \in { t \in SeqsUpTo(S, n - 1) : Len(t) = n - 1 }, x \in S }

TouchPayloads ==
    { Obj(GoodRepo, NoCommits) }
    \cup { Obj(GoodRepo, Commits(cs)) : cs \in SeqsUpTo(TouchCommits, MaxCommits) }

\* lines 82-89: str(readme_modified), or the exception the loop raises
touch_result(p) ==
    IF commits_raise(p) # "ok" THEN commits_raise(p)
    ELSE IF readme_modified(modified_files(p)) THEN "True" ELSE "False"

InitTouch ==
    /\ users = <<>>
    /\ repos = <<>>
    /\ events = <<>>
    /\ runs = [h \in Handlers |-> IdleRun]
    /\ nreq = 0
    /\ vin \in TouchPayloads
    /\ vout = ""
    /\ ApiIdle

DetectTouch ==
    /\ vout = ""
    /\ vout' = touch_result(vin)
    /\ UNCHANGED <<users, repos, events, runs, nreq, vin, api>>

NextTouch == DetectTouch

SpecTouch == InitTouch /\ [][NextTouch]_vars

(***************************************************************************)
(* The posts routes on their own (posts.py): tones, customize and publish  *)
(* calls and the background publishes they schedule, over tables earlier   *)
(* calls left.  User 1 went through the LinkedIn login (the stored token   *)
(* varies) and owns post 1, a draft or a post an earlier publish resolved; *)
(* user 2 has no LinkedIn token and owns post 2, if that post exists.      *)
(***************************************************************************)
PostAs(status) ==
    [LinkedInPost(1, 1, summarize("u/r", "professional", 1), "professional")
        EXCEPT !.status = status,
               !.linkedin_post_id = IF status = "posted" THEN "url" ELSE "",
               !.posted_at = IF status = "posted" THEN "utcnow" ELSE ""]

InitPosts ==
    /\ \E ltok \in GithubTokens : users = <<LinkedInUser("enc", ltok), User("enc")>>
    /\ repos = <<Repository(1, "123", "u/r", TRUE), Repository(2, "456", "v/w", TRUE)>>
    /\ \E status \in {"draft", "posted", "failed"} :
         \/ posts = <<PostAs(status)>>
         \/ posts = <<PostAs(status),
                      LinkedInPost(2, 2, summarize("v/w", "playful", 1), "playful")>>
    /\ events = <<>>
    /\ runs = [h \in Handlers |-> IdleRun]
    /\ nreq = 0
    /\ vin = NoVerify
    /\ vout = ""
    /\ ops = [o \in Slots |-> IdleOp]
    /\ nops = 0
    /\ tasks = <<>>

NextPosts ==
    \/ \E o \in Slots :
         \/ get_available_tones(o)
         \/ customize_post(o)
         \/ post_to_linkedin(o)
         \/ OpRespond(o)
    \/ \E i \in 1..MaxOps :
         \/ post_to_linkedin_background(i)
         \/ background_return(i)

SpecPosts == InitPosts /\ [][NextPosts]_vars

(***************************************************************************)
(* The repository routes on their own (repos.py), two calls at a time:     *)
(* monitor_repository and stop_monitoring_repository interleave at their   *)
(* awaits.  The repositories table is empty, or holds the row of user 1    *)
(* for repository 123 as an earlier stop left it or as an earlier monitor  *)
(* left it, with its hook.                                                 *)
(***************************************************************************)
RepoSlots == { "o1", "o2" }

Hooked(row, webhook_id) == [row EXCEPT !.webhook_id = webhook_id]

InitRepos ==
    /\ \E tok \in {"enc", "bad"} : users = <<User(tok), User("enc")>>
    /\ \/ repos = <<>>
       \/ repos = <<Repository(1, "123", "u/r", FALSE)>>
       \/ repos = <<Hooked(Repository(1, "123", "u/r", TRUE), "w0")>>
    /\ events = <<>>
    /\ runs = [h \in Handlers |-> IdleRun]
    /\ nreq = 0
    /\ vin = NoVerify
    /\ vout = ""
    /\ posts = <<>>
    /\ ops = [o \in RepoSlots |-> IdleOp]
    /\ nops = 0
    /\ tasks = <<>>

NextRepos ==
    \E o \in RepoSlots :
        \/ monitor_repository(o)
        \/ monitor_details(o)
        \/ monitor_hook(o)
        \/ stop_monitoring_repository(o)
        \/ stop_unhook(o)
        \/ OpRespond(o)

SpecRepos == InitRepos /\ [][NextRepos]_vars

(***************************************************************************)
(* GitHubService.get_user_repos (github_service.py lines 42-77) under      *)
(* list_repositories, as a loop of page requests.  vin is the state of     *)
(* the call:                                                               *)
(*   pc        request (about to ask for a page) | returned | raised       *)
(*   page      the page number the next request names                      *)
(*   repos     len(repos), the entries accumulated                         *)
(*   requests  page requests made                                          *)
(*   empty     an empty page was received                                  *)
(*   returned  length of the list get_user_repos returned                  *)
(* and vout is the status list_repositories answered with.                 *)
(***************************************************************************)
RepoLimit == 1000

PerPage == 100

\* the lengths of the pages GitHub may answer with
PageSizes == { 0, 1, PerPage \div 2, PerPage }

limit_reached_Above(n) == n > RepoLimit

\* line 58: if len(repos) >= 1000: break
limit_reached(n) == n >= RepoLimit

FirstPage ==
    [pc |-> "request", page |-> 1, repos |-> 0, requests |-> 0, empty |-> FALSE,
     returned |-> 0]

InitPages ==
    /\ users = <<User("enc"), User("enc")>>
    /\ repos = <<>>
    /\ events = <<>>
    /\ runs = [h \in Handlers |-> IdleRun]
    /\ nreq = 0
    /\ vin = FirstPage
    /\ vout = ""
    /\ ApiIdle

\* lines 47-59: one turn of the loop; _make_request returns a page or raises
get_user_repos ==
    /\ vin.pc = "request"
    /\ \E outcome \in {"ok", "raise"}, n \in PageSizes :
         /\ outcome = "raise" => n = 0
         /\ vin' =
              IF outcome = "raise"
              THEN [vin EXCEPT !.pc = "raised", !.requests = @ + 1]
              ELSE IF n = 0
              THEN [vin EXCEPT !.pc = "returned", !.requests = @ + 1, !.empty = TRUE,
                               !.returned = vin.repos]
              ELSE IF limit_reached(vin.repos + n)
              THEN [vin EXCEPT !.pc = "returned", !.requests = @ + 1, !.page = @ + 1,
                               !.repos = @ + n, !.returned = vin.repos + n]
              ELSE [vin EXCEPT !.requests = @ + 1, !.page = @ + 1, !.repos = @ + n]
    /\ UNCHANGED <<users, repos, events, runs, nreq, vout, posts, ops, nops, tasks>>

\* repos.py lines 30-44: list_repositories answers with the list, or turns
\* the exception into a 400
list_repositories ==
    /\ vin.pc \in {"returned", "raised"}
    /\ vout = ""
    /\ vout' = IF vin.pc = "returned" THEN "200" ELSE "400"
    /\ UNCHANGED <<users, repos, events, runs, nreq, vin, posts, ops, nops, tasks>>

NextPages == get_user_repos \/ list_repositories

SpecPages == InitPages /\ [][NextPages]_vars

(***************************************************************************)
(* Properties.  They are written against the request a run holds, the      *)
(* response it gave and the tables, not against the operators above.       *)
(***************************************************************************)
Range(f) == { f[i] : i \in DOMAIN f }

\* the position of step x in a run's steps (0: not executed)
Pos(steps, x) ==
    IF x \in Range(steps) THEN CHOOSE i \in DOMAIN steps : steps[i] = x ELSE 0

\* "sha256=" + hex(HMAC-SHA256(WEBHOOK_SECRET, raw body))
ExpectedSignature(body) ==
    [prefix |-> "sha256=",
     hex |-> [key |-> WEBHOOK_SECRET, msg |-> body, upper |-> FALSE],
     ascii |-> TRUE]

\* the run wrote nothing and called nobody
NoEffect(r) ==
    /\ r.row = 0
    /\ Len(events) = r.before
    /\ r.calls = [decrypt |-> 0, readme |-> 0, metadata |-> 0, summarize |-> 0]

\* C1: a request whose X-Hub-Signature-256 header is present (any value, the
\* empty string included) and differs from the expected signature is answered
\* 401 before the body is parsed, a row written or a collaborator called; with
\* the header absent the check is skipped and processing goes on.
C1_BadSignatureIs401 ==
    \A h \in Handlers :
        LET r == runs[h]
        IN  r.pc = "done" =>
              /\ (r.req.sig.t = "str" /\ r.req.sig.v # ExpectedSignature(r.req.body))
                    => /\ r.resp.status = 401
                       /\ "parse" \notin Range(r.steps)
                       /\ NoEffect(r)
              /\ r.req.sig.t = "absent"
                    => /\ r.resp.status # 401
                       /\ "parse" \in Range(r.steps)

\* C2: verify_webhook_signature(B, sig, S) returns true when sig is "sha256="
\* followed by the hex HMAC-SHA256 of B under S, and returns false for every
\* other signature text (so also for that signature with another body).
C2_VerifyExact ==
    vout # "" =>
        IF vin.signature = [prefix |-> "sha256=",
                            hex |-> [key |-> vin.secret, msg |-> vin.body, upper |-> FALSE],
                            ascii |-> TRUE]
        THEN vout = "True"
        ELSE vout = "False"

\* the request was refused for its signature
BadSignature(req) ==
    req.sig.t = "str" /\ req.sig.v # ExpectedSignature(req.body)

\* the body is not JSON, or the payload lacks repository.full_name or
\* repository.id
MalformedOrMissing(req) ==
    \/ req.body.kind # "json"
    \/ req.body.payload.t # "obj"
    \/ req.body.payload.repository.t # "obj"
    \/ req.body.payload.repository.full_name.t \in {"absent", "null"}
    \/ req.body.payload.repository.full_name.s = ""
    \/ req.body.payload.repository.id.t \in {"absent", "null"}
    \/ req.body.payload.repository.id.s = ""

\* C3: whatever the body, payload, headers and collaborator outcomes, the
\* status is 200, 401 or 400 and never 5xx; 401 only for a bad signature, 400
\* only for malformed JSON or missing repository fields.
C3_NeverServerError ==
    \A h \in Handlers :
        LET r == runs[h]
        IN  r.pc = "done" =>
              /\ r.resp.status \in {200, 400, 401}
              /\ r.resp.status = 401 => BadSignature(r.req)
              /\ r.resp.status = 400 => MalformedOrMissing(r.req)

\* the text the lookup compares with github_repo_id: str() of repository.id
IdText(req) ==
    LET id == req.body.payload.repository.id
    IN  IF id.t = "null" THEN "None" ELSE id.s

\* some Repository row has this GitHub id and is_monitored = true
Monitored(req) ==
    \E i \in DOMAIN repos :
        repos[i].github_repo_id = IdText(req) /\ repos[i].is_monitored

\* the run is a push that got as far as the lookup of the repository
ReachedLookup(r) ==
    /\ r.pc # "idle" /\ r.pc # "body"
    /\ r.req.event = [t |-> "str", s |-> "push"]
    /\ "lookup" \in Range(r.steps)

\* C4: a push whose repository.id matches no monitored Repository row is
\* answered 200 {status: ignored, reason: repository not monitored}, writes no
\* WebhookEvent row and calls no collaborator.
C4_NotMonitoredIgnored ==
    \A h \in Handlers :
        LET r == runs[h]
        IN  (ReachedLookup(r) /\ ~Monitored(r.req)) =>
              /\ r.pc = "done"
              /\ r.resp.status = 200
              /\ r.resp.body = [status |-> "ignored", key |-> "reason",
                                val |-> "repository not monitored"]
              /\ NoEffect(r)

\* a push for the row of u/r while that row is kept with is_monitored = false
C4_Witness ==
    \E h \in Handlers :
        /\ ReachedLookup(runs[h])
        /\ runs[h].pc = "done"
        /\ IdText(runs[h].req) = "123"
        /\ ~repos[1].is_monitored
        /\ runs[h].resp.body.status = "ignored"

\* the steps that follow the event log write
LaterSteps == {"touch", "token", "decrypt", "readme_fetch", "completed",
               "orchestrator", "metadata", "summarize"}

\* C5: a push that passes the signature check, parses, carries repository
\* fields and matches a monitored repository commits exactly one WebhookEvent
\* row, for the matched repository and with event_type "push", before the
\* README-touch decision, any decryption and any GitHub call; a rejected
\* (401, 400) or ignored webhook commits none.
C5_OneEventPerAcceptedPush ==
    \A h \in Handlers :
        LET r == runs[h]
        IN  /\ (ReachedLookup(r) /\ Monitored(r.req)) =>
                 /\ Len(events) = r.before + 1
                 /\ r.row = r.before + 1
                 /\ \E i \in DOMAIN repos :
                      /\ repos[i].github_repo_id = IdText(r.req)
                      /\ repos[i].is_monitored
                      /\ events[r.row].repository_id = i
                 /\ events[r.row].event_type = "push"
                 /\ Pos(r.steps, "log") > 0
                 /\ \A x \in LaterSteps :
                      Pos(r.steps, x) > 0 => Pos(r.steps, "log") < Pos(r.steps, x)
            /\ (r.calls.decrypt + r.calls.readme + r.calls.metadata + r.calls.summarize > 0)
                 => r.row > 0 /\ Len(events) >= r.row
            /\ (r.pc = "done" /\ (r.resp.status \in {400, 401}
                                   \/ r.resp.body.status = "ignored"))
                 => r.row = 0 /\ Len(events) = r.before

\* an accepted push whose row is in the table while the README is being fetched
C5_Witness ==
    \E h \in Handlers :
        /\ ReachedLookup(runs[h]) /\ Monitored(runs[h].req)
        /\ runs[h].pc = "readme"
        /\ Len(events) = runs[h].before + 1
        /\ events[runs[h].row].event_type = "push"

\* C6: if get_repo_metadata raises inside process_completed_project, the
\* webhook still answers 200 with status "error" and the message in the error
\* field, and the WebhookEvent row this request committed is still there,
\* unchanged.
C6_MetadataFailureContained ==
    \A h \in Handlers :
        LET r == runs[h]
        IN  (r.pc = "done" /\ r.meta = "raise") =>
              /\ r.resp.status = 200
              /\ r.resp.body.status = "error"
              /\ r.resp.body.key = "error"
              /\ r.resp.body.val = "Failed to get repo metadata: 404 Not Found"
              /\ r.row = r.before + 1
              /\ Len(events) = r.before + 1
              /\ events[r.row] =
                   [repository_id |-> r.repo, event_type |-> "push",
                    payload |-> [kind |-> "json", fmt |-> "dumps",
                                 payload |-> r.req.body.payload],
                    processed |-> FALSE]

C6_Witness ==
    \E h \in Handlers :
        /\ runs[h].pc = "done"
        /\ runs[h].meta = "raise"
        /\ runs[h].resp.body.status = "error"
        /\ Len(events) > 0

\* the response {status: "error", error: <some message>}
IsErrorResponse(resp) ==
    resp.status = 200 /\ resp.body.status = "error" /\ resp.body.key = "error"

\* C7 as stated: after classification (push, monitored, logged, README
\* touched) a failure of the README fetch, the metadata fetch or the
\* summarization yields 200 {status: error, error: message}; a failing README
\* fetch is reported as an error and as nothing else.
C7_EveryDownstreamFailureIsError ==
    \A h \in Handlers :
        LET r == runs[h]
        IN  (r.pc = "done" /\ (r.fetch = "raise" \/ r.meta = "raise" \/ r.summ = "raise"))
              => IsErrorResponse(r.resp)

\* C7 amended: a failure of the metadata fetch or of the summarization yields
\* 200 {status: error, error: message}; a failing README fetch is not reported
\* as an error: the content counts as empty, the answer is {status: processed,
\* completed_keyword: false} and neither metadata nor summarization is called.
C7_DownstreamFailures ==
    \A h \in Handlers :
        LET r == runs[h]
        IN  r.pc = "done" =>
              /\ r.meta = "raise" =>
                   /\ IsErrorResponse(r.resp)
                   /\ r.resp.body.val = "Failed to get repo metadata: 404 Not Found"
              /\ r.summ = "raise" =>
                   /\ IsErrorResponse(r.resp)
                   /\ r.resp.body.val = "'list' object has no attribute 'items'"
              /\ r.fetch = "raise" =>
                   /\ r.resp.status = 200
                   /\ r.resp.body = [status |-> "processed", key |-> "completed_keyword",
                                     val |-> "False"]
                   /\ r.readme_content = <<>>
                   /\ r.calls.metadata = 0
                   /\ r.calls.summarize = 0

\* a run whose README fetch failed and that has answered
C7_Witness ==
    \E h \in Handlers :
        /\ runs[h].pc = "done"
        /\ runs[h].fetch = "raise"
        /\ runs[h].calls.readme = 1
        /\ runs[h].row > 0

\* some commit object of the payload lists, under modified or added, a path
\* that contains "readme" in any letter case
TouchesReadme(req) ==
    LET cs == req.body.payload.commits.items
    IN  \E i \in DOMAIN cs :
          /\ cs[i].t = "obj"
          /\ \E ps \in {cs[i].modified.items, cs[i].added.items} :
               \E j \in DOMAIN ps :
                 \E k \in 0..Len(ps[j]) :
                   /\ k + 6 <= Len(ps[j])
                   /\ Lower(SubSeq(ps[j], k + 1, k + 6)) = <<"r","e","a","d","m","e">>

\* the text holds the nine characters of "Completed", in that letter case
HasCompleted(text) ==
    \E k \in 0..Len(text) :
        /\ k + 9 <= Len(text)
        /\ SubSeq(text, k + 1, k + 9) = <<"C","o","m","p","l","e","t","e","d">>

\* process_completed_project was entered by this run
Invoked(r) == "orchestrator" \in Range(r.steps)

\* C8: process_completed_project (metadata fetch, then summarization with tone
\* "professional") is invoked in a run if and only if the run is an accepted
\* push for a monitored repository, a modified or added path contains
\* "readme", the owner's token decrypts and the README that was fetched
\* contains "Completed"; then it is invoked exactly once and, if it does not
\* raise, the answer is {status: processed, action: summarization_triggered}.
C8_OrchestratorIffCompleted ==
    \A h \in Handlers :
        LET r == runs[h]
        IN  r.pc \in {"metadata", "done"} =>
              /\ Invoked(r) <=>
                   /\ ReachedLookup(r) /\ Monitored(r.req)
                   /\ r.row > 0
                   /\ TouchesReadme(r.req)
                   /\ users[repos[r.repo].user_id].github_access_token = "enc"
                   /\ r.access_token = "plain"
                   /\ r.fetch # ""
                   /\ HasCompleted(r.readme_content)
              /\ Invoked(r) => r.calls.metadata = 1
              /\ ~Invoked(r) => r.calls.metadata = 0 /\ r.calls.summarize = 0
              /\ r.calls.summarize <= 1
              /\ r.calls.summarize = 1 => r.tone = "professional" /\ r.meta = "ok"
              /\ (r.pc = "done" /\ Invoked(r) /\ r.meta = "ok" /\ r.summ = "ok") =>
                   /\ r.resp.status = 200
                   /\ r.resp.body = [status |-> "processed", key |-> "action",
                                     val |-> "summarization_triggered"]

\* the end-to-end scenario: README.md modified, "Project Completed" fetched
C8_Witness ==
    \E h \in Handlers :
        /\ runs[h].pc = "done"
        /\ Invoked(runs[h])
        /\ runs[h].readme_content = R_done
        /\ runs[h].calls.summarize = 1
        /\ runs[h].resp.body.val = "summarization_triggered"

\* C9: completion detection is a case-sensitive substring test for
\* "Completed": true for a README that contains it, false for one that only
\* contains "completed" and for the empty text; a touched README whose content
\* lacks "Completed" is answered {status: processed, completed_keyword: false}
\* with no metadata fetch and no summarization.
C9_CompletedIsCaseSensitive ==
    \A h \in Handlers :
        LET r == runs[h]
        IN  r.fetch # "" =>
              /\ r.readme_content = <<"P","r","o","j","e","c","t"," ",
                                      "C","o","m","p","l","e","t","e","d">>
                   => Invoked(r)
              /\ r.readme_content = <<"n","o","t"," ","c","o","m","p","l","e","t","e","d">>
                   => ~Invoked(r)
              /\ r.readme_content = <<>> => ~Invoked(r)
              /\ HasCompleted(r.readme_content) <=> Invoked(r)
              /\ ~HasCompleted(r.readme_content) =>
                   /\ r.pc = "done"
                   /\ r.resp.status = 200
                   /\ r.resp.body = [status |-> "processed", key |-> "completed_keyword",
                                     val |-> "False"]
                   /\ r.calls.metadata = 0
                   /\ r.calls.summarize = 0

\* a README that says "not completed" was fetched
C9_Witness ==
    \E h \in Handlers :
        /\ runs[h].pc = "done"
        /\ runs[h].fetch = "ok"
        /\ runs[h].readme_content = R_lower
        /\ runs[h].resp.body.key = "completed_keyword"

\* C10: an accepted push whose commits touch no README path is answered
\* {status: processed, readme_modified: false} after the event is logged, with
\* no token decryption, README fetch, metadata fetch or summarization.
C10_NoReadmeNoCalls ==
    \A h \in Handlers :
        LET r == runs[h]
        IN  (ReachedLookup(r) /\ Monitored(r.req) /\ ~TouchesReadme(r.req)) =>
              /\ r.pc = "done"
              /\ r.resp.status = 200
              /\ r.resp.body = [status |-> "processed", key |-> "readme_modified",
                                val |-> "False"]
              /\ r.row = r.before + 1
              /\ r.calls = [decrypt |-> 0, readme |-> 0, metadata |-> 0, summarize |-> 0]

(***************************************************************************)
(* C11.  README-touch detection is true exactly when some path in the      *)
(* modified or added list of some commit of the payload contains "readme"  *)
(* in any letter case; paths that are only removed do not count, and a     *)
(* payload with no commits key or an empty commit list gives false.  The   *)
(* README paths of the input set are listed here by name.                  *)
(***************************************************************************)
NamesReadme(f) == f \in { P_README, P_Readme, P_docsREADME, P_docs }

\* some modified or added path of some commit names a README
PushTouchesReadme(p) ==
    \E i \in 1..Len(p.commits.items) :
        LET c == p.commits.items[i]
        IN  \/ \E k \in 1..Len(c.modified.items) : NamesReadme(c.modified.items[k])
            \/ \E k \in 1..Len(c.added.items) : NamesReadme(c.added.items[k])

C11_ReadmeTouchDetection ==
    vout # "" =>
        /\ vout \in {"True", "False"}
        /\ (vout = "True") <=> PushTouchesReadme(vin)
        /\ (vin.commits.t = "absent" \/ vin.commits.items = <<>>) => vout = "False"

\* a README removed in one commit and Readme.MD added in the next: true,
\* on account of the added path alone
C11_Witness ==
    /\ vout = "True"
    /\ vin.commits.items = <<Removed(<<P_README>>), Added(<<P_Readme>>)>>

(***************************************************************************)
(* C12.  A webhook that is correctly signed, or carries no signature       *)
(* header, whose body is JSON and whose X-GitHub-Event header is anything  *)
(* but "push" (absent included) is answered 200 {status: ignored}          *)
(* whatever the payload holds: the repository lookup is not made, no       *)
(* WebhookEvent row is written and no collaborator is called.              *)
(***************************************************************************)
SignedOrUnsigned(req) ==
    req.sig.t = "absent" \/ req.sig.v = ExpectedSignature(req.body)

C12_NonPushIgnored ==
    \A h \in Handlers :
        LET r == runs[h]
        IN  (/\ r.pc \notin {"idle", "body"}
             /\ SignedOrUnsigned(r.req)
             /\ r.req.body.kind = "json"
             /\ r.req.event # [t |-> "str", s |-> "push"]) =>
              /\ r.pc = "done"
              /\ r.resp.status = 200
              /\ r.resp.body.status = "ignored"
              /\ r.resp.body.key = "event"
              /\ "lookup" \notin Range(r.steps)
              /\ NoEffect(r)

\* a signed delivery without event header for the monitored repository u/r,
\* its commits touching README.md
C12_Witness ==
    \E h \in Handlers :
        /\ runs[h].pc = "done"
        /\ runs[h].req.event.t = "absent"
        /\ runs[h].req.sig.t = "str"
        /\ runs[h].req.sig.v = ExpectedSignature(runs[h].req.body)
        /\ runs[h].req.body.payload.repository.id.s = "123"
        /\ runs[h].req.body.payload.commits.items # <<>>
        /\ repos[1].is_monitored
        /\ runs[h].resp.body.status = "ignored"

(***************************************************************************)
(* C13.  A push whose payload lacks repository.full_name or repository.id  *)
(* -- no repository object, the key absent, the value null or the empty    *)
(* string, for either field -- is answered 400 "Missing repository         *)
(* information", writes no row and calls no collaborator.                  *)
(***************************************************************************)
MissingField(v) == v.t \in {"absent", "null"} \/ (v.t = "str" /\ v.s = "")

MissingRepositoryFields(p) ==
    /\ p.t = "obj"
    /\ \/ p.repository.t = "absent"
       \/ /\ p.repository.t = "obj"
          /\ MissingField(p.repository.full_name) \/ MissingField(p.repository.id)

C13_MissingRepositoryIs400 ==
    \A h \in Handlers :
        LET r == runs[h]
        IN  (/\ r.pc = "done"
             /\ SignedOrUnsigned(r.req)
             /\ r.req.body.kind = "json"
             /\ r.req.event = [t |-> "str", s |-> "push"]
             /\ MissingRepositoryFields(r.req.body.payload)) =>
              /\ r.resp = [status |-> 400,
                           body |-> [status |-> "", key |-> "detail",
                                     val |-> "Missing repository information"]]
              /\ NoEffect(r)

\* the same with repository.id = null left aside
C13_ExceptNullId ==
    \A h \in Handlers :
        LET r == runs[h]
        IN  (/\ r.pc = "done"
             /\ SignedOrUnsigned(r.req)
             /\ r.req.body.kind = "json"
             /\ r.req.event = [t |-> "str", s |-> "push"]
             /\ MissingRepositoryFields(r.req.body.payload)
             /\ r.req.body.payload.repository.id.t # "null") =>
              /\ r.resp.status = 400
              /\ NoEffect(r)

(***************************************************************************)
(* C14.  The event log is append-only: whatever webhook deliveries,        *)
(* repository-monitoring calls and post calls are made, in whatever order, *)
(* every step leaves each existing WebhookEvent row where it is and as it  *)
(* is; rows are only added.                                                *)
(***************************************************************************)
C14_EventLogAppendOnly ==
    [][ /\ Len(events') >= Len(events)
        /\ \A i \in DOMAIN events : events'[i] = events[i] ]_vars

\* a push was logged for repository row 1, the row was then switched off by
\* stop_monitoring_repository and a draft was created for it
C14_Witness ==
    /\ Len(events) >= 1
    /\ events[1].repository_id = 1
    /\ ~repos[1].is_monitored
    /\ Len(posts) >= 1

(***************************************************************************)
(* C15.  Concurrent deliveries do not interfere: however the handler runs  *)
(* interleave, the log holds exactly one row per accepted run, each row    *)
(* with the repository and the payload of its own run, and two runs given  *)
(* the same request and the same collaborator results answer the same.     *)
(***************************************************************************)
\* the run is an accepted push whose synchronous part has run
Accepted(r) == ReachedLookup(r) /\ Monitored(r.req)

\* the row an accepted run must have written
OwnRow(r) ==
    [repository_id |->
        CHOOSE i \in DOMAIN repos : repos[i].github_repo_id = IdText(r.req),
     event_type |-> "push",
     payload |-> [kind |-> "json", fmt |-> "dumps", payload |-> r.req.body.payload],
     processed |-> FALSE]

C15_ConcurrentRunsIndependent ==
    /\ Len(events) = Cardinality({ h \in DOMAIN runs : Accepted(runs[h]) })
    /\ \A h \in DOMAIN runs :
         Accepted(runs[h]) =>
           /\ runs[h].row \in DOMAIN events
           /\ events[runs[h].row] = OwnRow(runs[h])
    /\ \A h, g \in DOMAIN runs :
         /\ (h # g /\ Accepted(runs[h]) /\ Accepted(runs[g])) => runs[h].row # runs[g].row
         /\ (/\ runs[h].pc = "done" /\ runs[g].pc = "done"
             /\ runs[h].req = runs[g].req
             /\ runs[h].fetch = runs[g].fetch
             /\ runs[h].readme_content = runs[g].readme_content
             /\ runs[h].meta = runs[g].meta
             /\ runs[h].summ = runs[g].summ) => runs[h].resp = runs[g].resp

\* while h1 waits for the README of u/r, h2 has logged its push for v/w and
\* answered
C15_Witness ==
    /\ DOMAIN runs = ConcHandlers
    /\ runs["h1"].pc = "readme" /\ runs["h1"].row = 1
    /\ runs["h2"].pc = "done" /\ runs["h2"].row = 2
    /\ IdText(runs["h1"].req) = "123" /\ IdText(runs["h2"].req) = "456"

(***************************************************************************)
(* C16.  The only database write of the webhook pipeline is the insert of  *)
(* the WebhookEvent row: no step of github_webhook or of                   *)
(* process_completed_project, however the run ends, creates or changes a   *)
(* LinkedInPost row or changes a User or Repository row.                   *)
(***************************************************************************)
C16_WebhookWritesOnlyEventLog ==
    [][ runs' # runs => (posts' = posts /\ users' = users /\ repos' = repos) ]_vars

\* a run went through process_completed_project to the end, next to drafts
\* and rows the authenticated routes wrote
C16_Witness ==
    \E h \in Handlers :
        /\ runs[h].pc = "done"
        /\ runs[h].resp.body.val = "summarization_triggered"
        /\ Len(posts) = 1
        /\ posts[1].tone # "professional"

(***************************************************************************)
(* C17.  Classification is a function of the event type, the payload and   *)
(* the monitored repositories alone: two runs with the same event header   *)
(* and the same payload, against the same monitored set, are classified    *)
(* the same (ignored event, missing fields, not monitored, or accepted for *)
(* the same repository row), whether one ran before the other or the two   *)
(* interleaved.                                                            *)
(***************************************************************************)
\* the run got past signature check and JSON parsing and was classified
Classified(r) == r.pc \notin {"idle", "body"} /\ "event" \in Range(r.steps)

\* what the run was classified as, read off its response and its row
Decision(r) ==
    CASE r.row > 0 -> [kind |-> "accepted", repo |-> events[r.row].repository_id]
      [] r.resp.status = 400 -> [kind |-> "missing fields", repo |-> 0]
      [] r.resp.status = 500 -> [kind |-> "exception", repo |-> 0]
      [] r.resp.body.key = "event" -> [kind |-> "ignored event", repo |-> 0]
      [] OTHER -> [kind |-> "not monitored", repo |-> 0]

C17_ClassificationIsPure ==
    \A h, g \in DOMAIN runs :
        (/\ Classified(runs[h]) /\ Classified(runs[g])
         /\ runs[h].req.event = runs[g].req.event
         /\ runs[h].req.body.payload = runs[g].req.body.payload)
            => Decision(runs[h]) = Decision(runs[g])

\* the same push for u/r delivered twice, once unsigned and once signed in
\* another formatting; the first run has finished and both were accepted
C17_Witness ==
    /\ DOMAIN runs = ConcHandlers
    /\ runs["h1"].pc = "done" /\ runs["h1"].row = 1
    /\ runs["h2"].row = 2
    /\ runs["h1"].req.body.payload = runs["h2"].req.body.payload
    /\ runs["h1"].req.sig # runs["h2"].req.sig

(***************************************************************************)
(* C18.  The checks run in one order -- signature, JSON parse, event type, *)
(* repository fields, monitored lookup, event log write, README touch,     *)
(* token, README fetch, orchestrator -- and the first check that fails     *)
(* decides the response: a request with an invalid signature is answered   *)
(* 401 even when its body is not JSON, a request whose body is not JSON is *)
(* answered 400 even when its event is not a push, a non-push is ignored   *)
(* whatever its repository fields, and a push without repository fields is *)
(* answered 400 whatever the monitored rows.                               *)
(***************************************************************************)
CheckOrder ==
    <<"signature", "parse", "event", "fields", "lookup", "log", "touch", "token",
      "decrypt", "readme_fetch", "completed", "orchestrator", "metadata", "summarize">>

\* the executed statements are an initial part of the order
InOrder(steps) ==
    /\ Len(steps) <= Len(CheckOrder)
    /\ \A i \in DOMAIN steps : steps[i] = CheckOrder[i]

FirstFailingCheckDecides(r, badsig, notjson) ==
    /\ InOrder(r.steps)
    /\ badsig => r.resp.status = 401
    /\ (~badsig /\ notjson) =>
          /\ r.resp.status = 400
          /\ r.resp.body.val = "Invalid JSON payload"
    /\ (~badsig /\ r.req.body.kind = "json" /\ r.req.event # [t |-> "str", s |-> "push"]) =>
          r.resp.body.status = "ignored" /\ r.resp.body.key = "event"
    /\ (/\ ~badsig /\ r.req.body.kind = "json"
        /\ r.req.event = [t |-> "str", s |-> "push"]
        /\ MissingRepositoryFields(r.req.body.payload)
        /\ r.req.body.payload.repository.id.t # "null") =>
          /\ r.resp.status = 400
          /\ r.resp.body.val = "Missing repository information"

C18_FixedCheckOrder ==
    \A h \in Handlers :
        LET r == runs[h]
        IN  r.pc = "done" =>
              FirstFailingCheckDecides(r, BadSignature(r.req), r.req.body.kind # "json")

\* the same for the requests whose signature header, when present, is a
\* non-empty ASCII text and whose body is UTF-8 text
C18_OrderWhereSignatureIsChecked ==
    \A h \in Handlers :
        LET r == runs[h]
        IN  (/\ r.pc = "done"
             /\ r.req.sig.t = "str" => (r.req.sig.v.ascii /\ r.req.sig.v.prefix # "")
             /\ r.req.body.kind # "nonutf8") =>
              FirstFailingCheckDecides(r, BadSignature(r.req), r.req.body.kind # "json")

(***************************************************************************)
(* C19.  POST /posts/summarize/{repo_id}: on success exactly one           *)
(* LinkedInPost row is created, with status "draft", the requested tone,   *)
(* the generated text, the caller's user_id and the repository row's id;   *)
(* when the repository is not found for the caller (404), GitHub is not    *)
(* connected (400), or decryption, the metadata fetch or the summarization *)
(* fails (400), no row is created.                                         *)
(***************************************************************************)
\* the caller's Repository rows with this GitHub id
OwnedRows(uid, rid) ==
    { i \in DOMAIN repos : repos[i].user_id = uid /\ repos[i].github_repo_id = rid }

\* a text generated for repository row i in the requested tone
GeneratedFor(content, i, tone) ==
    /\ content.name = repos[i].full_name
    /\ content.tone = (IF tone \in {"professional", "playful", "technical", "cocky"}
                       THEN tone ELSE "professional")
    /\ content.variant \in 1..3
    /\ content.suffix = ""

C19_SummarizeCreatesOneDraft ==
    \A o \in DOMAIN ops :
        LET op == ops[o]
            mine == OwnedRows(op.user_id, op.repo_id)
        IN  (op.kind = "summarize" /\ op.pc = "done") =>
              IF mine = {}
              THEN op.resp.status = 404 /\ Len(posts) = op.before
              ELSE IF users[op.user_id].github_access_token # "enc"
                      \/ op.outcome \in {"metadata", "summarize"}
              THEN op.resp.status = 400 /\ Len(posts) = op.before
              ELSE /\ op.resp.status = 200
                   /\ Len(posts) = op.before + 1
                   /\ LET post == posts[op.before + 1]
                      IN  /\ post.status = "draft"
                          /\ post.tone = op.tone
                          /\ post.user_id = op.user_id
                          /\ post.repository_id \in mine
                          /\ post.linkedin_post_id = ""
                          /\ GeneratedFor(post.content, post.repository_id, op.tone)

\* a draft in a tone that has no templates of its own
C19_Witness ==
    \E o \in DOMAIN ops :
        /\ ops[o].kind = "summarize" /\ ops[o].pc = "done"
        /\ ops[o].resp.status = 200
        /\ ops[o].tone = "sarcastic"
        /\ posts[Len(posts)].tone = "sarcastic"

(***************************************************************************)
(* C20.  Every webhook run ends with a response: it reaches exactly one of *)
(* the terminal outcomes 401, 400, ignored, processed or error (the last   *)
(* three as HTTP 200), and it calls each collaborator at most once: no     *)
(* retry, no loop.                                                         *)
(***************************************************************************)
TerminalOutcome(resp) ==
    \/ resp.status = 401
    \/ resp.status = 400
    \/ resp.status = 200 /\ resp.body.status \in {"ignored", "processed", "error"}

AtMostOnce(calls) ==
    calls.decrypt <= 1 /\ calls.readme <= 1 /\ calls.metadata <= 1 /\ calls.summarize <= 1

C20_OneTerminalOutcome ==
    \A h \in Handlers :
        /\ AtMostOnce(runs[h].calls)
        /\ runs[h].pc = "done" => TerminalOutcome(runs[h].resp)

\* under SpecLive: a run whose body has arrived ends with a response
C20_Terminates ==
    \A h \in Handlers : (runs[h].pc = "body") ~> (runs[h].pc = "done")

\* a run has a response exactly when it has finished, and has called each
\* collaborator at most once
C20_RespondsOnce ==
    \A h \in Handlers :
        /\ AtMostOnce(runs[h].calls)
        /\ runs[h].pc = "done" <=> runs[h].resp.status # 0

(***************************************************************************)
(* C21.  GET /api/v1/posts/tones is answered 200 with a tones mapping that *)
(* has the keys professional, playful, technical and cocky, whatever the   *)
(* tables hold when the call arrives, and the call changes no table and    *)
(* schedules nothing.                                                      *)
(***************************************************************************)
TonesCall(o) == ops[o].pc = "idle" /\ ops'[o].kind = "tones"

C21_TonesAlwaysAnswered ==
    [][\A o \in Slots :
         TonesCall(o) =>
           /\ ops'[o].pc = "done"
           /\ ops'[o].resp.status = 200
           /\ ops'[o].resp.body.key = "tones"
           /\ {"professional", "playful", "technical", "cocky"} \subseteq DOMAIN ops'[o].tones
           /\ <<users, repos, events, posts, tasks>>' = <<users, repos, events, posts, tasks>>]_vars

\* the tones were asked for while a publish of post 1 was in flight and the
\* post had been customized
C21_Witness ==
    \E o \in Slots :
        /\ ops[o].kind = "tones" /\ ops[o].pc = "done"
        /\ DOMAIN ops[o].tones = {"professional", "playful", "technical", "cocky"}
        /\ posts[1].status = "posting"
        /\ \E i \in DOMAIN tasks : tasks[i].pc = "posting"

(***************************************************************************)
(* C22.  post_to_linkedin does not look at the post's status: a call for   *)
(* an existing post of the caller, whose user has a LinkedIn token, sets   *)
(* the status to "posting" and schedules one background publish whether    *)
(* the post was draft, posting, posted or failed; each scheduled publish   *)
(* calls post_content when it runs (its token decrypting), so k accepted   *)
(* calls for a post give k calls, and a posted post returns to posting.    *)
(***************************************************************************)
PublishCall(o) == ops[o].pc = "idle" /\ ops'[o].kind = "publish"

\* the post exists, is the caller's, and the caller has a LinkedIn token
Publishable(uid, pid) ==
    /\ pid \in DOMAIN posts
    /\ posts[pid].user_id = uid
    /\ users[uid].linkedin_access_token # ""

\* task i made its call to linkedin_service.post_content
CalledPostContent(i) ==
    tasks[i].pc \in {"posting", "done"} /\ tasks[i].outcome # "InvalidToken"

TaskFinishes(i) == tasks[i].pc # "done" /\ tasks'[i].pc = "done"

C23_PublishResolves ==
    [][\A i \in DOMAIN tasks :
         TaskFinishes(i) =>
           LET p == tasks[i].post_id
           IN  /\ tasks'[i].outcome = "ok" =>
                    /\ posts'[p].status = "posted"
                    /\ posts'[p].linkedin_post_id = "url"
                    /\ posts'[p].posted_at = "utcnow"
               /\ tasks'[i].outcome \in {"raise", "InvalidToken"} =>
                    /\ posts'[p].status = "failed"
                    /\ posts'[p].linkedin_post_id = posts[p].linkedin_post_id
                    /\ posts'[p].posted_at = posts[p].posted_at]_vars

\* what does hold: once every publish scheduled for a post has finished, the
\* post is "posted" or "failed"
C23_ResolvedWhenQuiet ==
    \A p \in DOMAIN posts :
        (/\ \E i \in DOMAIN tasks : tasks[i].post_id = p
         /\ \A i \in DOMAIN tasks : tasks[i].post_id = p => tasks[i].pc = "done")
            => posts[p].status \in {"posted", "failed"}

(***************************************************************************)
(* C28.  customize_post and post_to_linkedin act only on a post of the     *)
(* caller: for a post id that has no row or whose row belongs to another   *)
(* user they answer 404, leave every LinkedInPost row as it was and        *)
(* schedule nothing; post_to_linkedin for a post of the caller whose user  *)
(* has no LinkedIn token answers 400 and leaves the post as it was.        *)
(***************************************************************************)
PostCall(o) == ops[o].pc = "idle" /\ ops'[o].kind \in {"customize", "publish"}

\* the post exists and is the caller's
OwnPost(uid, pid) == pid \in DOMAIN posts /\ posts[pid].user_id = uid

C28_OnlyOwnPosts ==
    [][\A o \in Slots :
         PostCall(o) =>
           LET uid == ops'[o].user_id
               pid == ops'[o].post_id
           IN  /\ ~OwnPost(uid, pid) =>
                    /\ ops'[o].resp.status = 404
                    /\ posts' = posts
                    /\ tasks' = tasks
               /\ (OwnPost(uid, pid) /\ ops'[o].kind = "publish"
                      /\ users[uid].linkedin_access_token = "") =>
                    /\ ops'[o].resp.status = 400
                    /\ posts' = posts
                    /\ tasks' = tasks
               /\ \A q \in DOMAIN posts : posts'[q] # posts[q] => q = pid /\ OwnPost(uid, q)]_vars

\* the second call of a run: user 2 asked to publish post 1 of user 1 and got
\* 404; the post is still a draft and nothing is scheduled
C28_Witness ==
    \E o \in Slots :
        /\ ops[o].kind = "publish" /\ ops[o].pc = "done"
        /\ ops[o].user_id = 2 /\ ops[o].post_id = 1
        /\ ops[o].resp.status = 404
        /\ posts[1].user_id = 1
        /\ posts[1].status = "draft"
        /\ tasks = <<>>
        /\ nops = 2

(***************************************************************************)
(* C24.  In every reachable state, through every interleaving of a         *)
(* monitor_repository call and a stop_monitoring_repository call on one    *)
(* repository, a Repository row with is_monitored = false has a null       *)
(* webhook_id.                                                             *)
(***************************************************************************)
C24_UnmonitoredHasNoHook ==
    \A i \in DOMAIN repos : ~repos[i].is_monitored => repos[i].webhook_id = ""

(***************************************************************************)
(* C25.  monitor_repository calls create_webhook only on the path that     *)
(* inserts a new Repository row, never on the path that re-enables an      *)
(* existing row: the re-enabling step answers at once, sets is_monitored   *)
(* and leaves webhook_id as it was.  So after stop_monitoring_repository   *)
(* and then monitor_repository for the same user and repository the row    *)
(* has is_monitored = true and webhook_id = null.                          *)
(***************************************************************************)
\* the rows of the caller of slot o for the repository it names
CallerRows(o) ==
    { i \in DOMAIN repos : /\ repos[i].user_id = ops[o].user_id
                           /\ repos[i].github_repo_id = ops[o].repo_id }

C25_HookOnlyOnInsert ==
    [][\A o \in RepoSlots :
         /\ (ops[o].pc # "hook" /\ ops'[o].pc = "hook") =>
              /\ CallerRows(o) = {}
              /\ Len(repos') = Len(repos) + 1
              /\ ops'[o].row = Len(repos')
         /\ (ops[o].kind = "monitor" /\ ops[o].pc = "details"
               /\ ops'[o].outcome = "ok" /\ CallerRows(o) # {}) =>
              /\ ops'[o].pc = "done"
              /\ ops'[o].resp.status = 200
              /\ Len(repos') = Len(repos)
              /\ \A i \in CallerRows(o) :
                   /\ repos'[i].is_monitored
                   /\ repos'[i].webhook_id = repos[i].webhook_id
                   /\ (~repos[i].is_monitored /\ repos[i].webhook_id = "")
                        => repos'[i] = [repos[i] EXCEPT !.is_monitored = TRUE]]_vars

\* the row had hook w0; a stop removed it and a monitor call switched the row
\* on again: monitored, without a hook
C25_Witness ==
    \E o1, o2 \in RepoSlots :
        /\ ops[o1].kind = "stop" /\ ops[o1].pc = "done"
        /\ ops[o1].held.webhook_id = "w0"
        /\ ops[o2].kind = "monitor" /\ ops[o2].pc = "done"
        /\ ops[o2].row = 1 /\ ops[o2].resp.status = 200
        /\ repos[1].is_monitored
        /\ repos[1].webhook_id = ""

(***************************************************************************)
(* C27.  There is at most one Repository row per github_repo_id, across    *)
(* all users.  A monitor_repository call of a user for a github_repo_id    *)
(* that another user's row holds when the call gets to its insert (the row *)
(* registered earlier, or by the winner of two concurrent first calls)     *)
(* fails with 400 and leaves the table as it was.  When the winner of two  *)
(* concurrent first calls is the same user, the other call finds the row,  *)
(* answers 200 and adds no row.                                            *)
(***************************************************************************)
OneRowPerGithubId ==
    \A i, j \in DOMAIN repos : repos[i].github_repo_id = repos[j].github_repo_id => i = j

\* slot o's monitor call gets its answer from get_repo_details in this step
MonitorLookup(o) ==
    ops[o].kind = "monitor" /\ ops[o].pc = "details" /\ ops'[o].outcome = "ok"

\* rows of other users with the github_repo_id the call of slot o names
OthersRows(o) ==
    { i \in DOMAIN repos : /\ repos[i].github_repo_id = ops[o].repo_id
                           /\ repos[i].user_id # ops[o].user_id }

\* rows with that github_repo_id inserted since the call of slot o arrived
RowsSinceArrival(o) ==
    { i \in DOMAIN repos : repos[i].github_repo_id = ops[o].repo_id /\ i > ops[o].seen }

C27_OneOwnerPerRepository ==
    [][/\ OneRowPerGithubId /\ OneRowPerGithubId'
       /\ \A o \in RepoSlots :
            MonitorLookup(o) =>
              /\ OthersRows(o) # {} =>
                   /\ ops'[o].pc = "done"
                   /\ ops'[o].resp.status = 400
                   /\ repos' = repos
              /\ (RowsSinceArrival(o) # {} /\ OthersRows(o) = {}) =>
                   /\ ops'[o].pc = "done"
                   /\ ops'[o].resp.status = 200
                   /\ Len(repos') = Len(repos)]_vars

\* C27 as stated: the loser of any two concurrent first calls gets 400 and
\* the row is unchanged
C27_LoserAlwaysRefused ==
    [][/\ OneRowPerGithubId /\ OneRowPerGithubId'
       /\ \A o \in RepoSlots :
            (MonitorLookup(o) /\ (OthersRows(o) # {} \/ RowsSinceArrival(o) # {})) =>
              /\ ops'[o].pc = "done"
              /\ ops'[o].resp.status = 400
              /\ repos' = repos]_vars

\* users 1 and 2 both asked for repository 456 while no row had it: user 1's
\* insert went first and user 2's call was refused
C27_Witness ==
    \E o1, o2 \in RepoSlots :
        /\ ops[o1].kind = "monitor" /\ ops[o1].user_id = 1 /\ ops[o1].repo_id = "456"
        /\ ops[o1].pc = "hook"
        /\ ops[o2].kind = "monitor" /\ ops[o2].user_id = 2 /\ ops[o2].repo_id = "456"
        /\ ops[o2].pc = "done" /\ ops[o2].resp.status = 400
        /\ ops[o2].seen < ops[o1].row
        /\ repos[ops[o1].row].user_id = 1

(***************************************************************************)
(* C26.  When stop_monitoring_repository completes, the row is switched    *)
(* off, also when delete_webhook raised; a row that is off is switched on  *)
(* only by a monitor_repository call that succeeds; and a push webhook     *)
(* that arrives while no row with its github_repo_id is monitored is       *)
(* answered {status: ignored, reason: repository not monitored} and adds   *)
(* no WebhookEvent row.                                                    *)
(***************************************************************************)
StopCompletes(o) ==
    /\ ops[o].pc # "done" /\ ops'[o].pc = "done"
    /\ ops'[o].kind = "stop" /\ ops'[o].resp.status = 200

\* the handler of run h looks the repository up in this step
LookupStep(h) ==
    /\ runs[h].pc = "body"
    /\ runs'[h].req.event = [t |-> "str", s |-> "push"]
    /\ "lookup" \in Range(runs'[h].steps)

C26_StoppedRepositoryIgnored ==
    [][/\ \A o \in Slots :
            StopCompletes(o) =>
              /\ ~repos'[ops'[o].row].is_monitored
              /\ repos'[ops'[o].row].webhook_id = ""
       /\ \A i \in DOMAIN repos :
            (~repos[i].is_monitored /\ repos'[i].is_monitored) =>
              \E o \in Slots :
                /\ ops[o].kind = "monitor" /\ ops[o].pc = "details"
                /\ ops'[o].pc = "done" /\ ops'[o].resp.status = 200
                /\ ops'[o].row = i
       /\ \A h \in Handlers :
            (LookupStep(h) /\ ~Monitored(runs[h].req)) =>
              /\ runs'[h].pc = "done"
              /\ runs'[h].resp.status = 200
              /\ runs'[h].resp.body = [status |-> "ignored", key |-> "reason",
                                       val |-> "repository not monitored"]
              /\ events' = events
              /\ runs'[h].row = 0]_vars

\* the row had hook w0, delete_webhook raised, the stop completed, and a push
\* for the repository was then ignored
C26_Witness ==
    \E o \in Slots, h \in Handlers :
        /\ ops[o].kind = "stop" /\ ops[o].pc = "done"
        /\ ops[o].held.webhook_id = "w0" /\ ops[o].outcome = "raise"
        /\ ~repos[1].is_monitored
        /\ runs[h].pc = "done"
        /\ IdText(runs[h].req) = repos[1].github_repo_id
        /\ runs[h].resp.body.val = "repository not monitored"
        /\ events = <<>>

(***************************************************************************)
(* C29.  An accepted push that touches a README, for a repository whose    *)
(* owner has no stored GitHub access token, is answered 200 {status:       *)
(* error, reason: no github token}; its WebhookEvent row is committed and  *)
(* no decryption, README fetch, metadata fetch or summarization is made.   *)
(***************************************************************************)
C29_NoTokenIsSoftError ==
    \A h \in Handlers :
        LET r == runs[h]
        IN  (/\ ReachedLookup(r) /\ Monitored(r.req)
             /\ TouchesReadme(r.req)
             /\ users[repos[r.repo].user_id].github_access_token = "") =>
              /\ r.pc = "done"
              /\ r.resp.status = 200
              /\ r.resp.body = [status |-> "error", key |-> "reason",
                                val |-> "no github token"]
              /\ r.row = r.before + 1
              /\ Len(events) = r.before + 1
              /\ events[r.row].repository_id = r.repo
              /\ events[r.row].event_type = "push"
              /\ r.calls = [decrypt |-> 0, readme |-> 0, metadata |-> 0, summarize |-> 0]

\* what does hold: the same, for a push whose commit list the handler could
\* walk without raising
C29_UnlessCommitsRaise ==
    \A h \in Handlers :
        LET r == runs[h]
        IN  (/\ ReachedLookup(r) /\ Monitored(r.req)
             /\ TouchesReadme(r.req)
             /\ users[repos[r.repo].user_id].github_access_token = ""
             /\ ~(r.pc = "done" /\ r.resp.status = 500)) =>
              /\ r.pc = "done"
              /\ r.resp.status = 200
              /\ r.resp.body = [status |-> "error", key |-> "reason",
                                val |-> "no github token"]
              /\ r.row = r.before + 1
              /\ Len(events) = r.before + 1
              /\ r.calls = [decrypt |-> 0, readme |-> 0, metadata |-> 0, summarize |-> 0]

\* README.md modified in u/r, whose owner has no token
C29_NoTokenReached ==
    \E h \in Handlers :
        /\ runs[h].pc = "done"
        /\ runs[h].repo = 1
        /\ users[1].github_access_token = ""
        /\ TouchesReadme(runs[h].req)
        /\ runs[h].resp.body.val = "no github token"
        /\ Len(events) = 1

(***************************************************************************)
(* C30.  get_user_repos terminates: it asks for pages 1, 2, 3, ... in      *)
(* order and stops at the first empty page or as soon as 1000 or more      *)
(* repositories are accumulated; with non-empty pages of 1 to 100 entries  *)
(* it makes at most 1000 page requests and returns at most 1099            *)
(* repositories; an exception from a page request ends the call with no    *)
(* list returned.                                                          *)
(***************************************************************************)
C30_PaginationTerminates ==
    /\ vin.requests <= 1000
    /\ vin.repos <= 1099
    /\ vin.pc = "request" =>
         /\ vin.page = vin.requests + 1
         /\ ~vin.empty
         /\ vin.repos < 1000
         /\ vin.repos >= vin.requests
    /\ vin.pc = "returned" =>
         /\ vin.empty \/ vin.repos >= 1000
         /\ vin.returned = vin.repos
         /\ vin.returned <= 1099
         /\ vout \in {"", "200"}
    /\ vin.pc = "raised" =>
         /\ vin.returned = 0
         /\ vout \in {"", "400"}

\* 999 repositories were accumulated and the next page held 100
C30_Witness ==
    /\ vin.pc = "returned"
    /\ vin.returned = 1099
    /\ ~vin.empty
    /\ vout = "200"

\* 999 pages of one repository each, and a thousandth
C30_ThousandRequests ==
    vin.pc = "returned" /\ vin.requests = 1000

====
